---- MODULE Spec2Model ----
(***************************************************************************)
(* A model of gconfiglib's configuration tree (ConfigNode,                 *)
(* ConfigAttribute) and of its template validation engine.                 *)
(*                                                                         *)
(* Python objects live in a heap indexed by object ids, so that parent     *)
(* back-references, aliasing and in-place mutation behave as in the code.  *)
(* An exception is modelled by the flag err of the threaded state: once    *)
(* it is raised every remaining step of the call is skipped, and whatever  *)
(* the call had already written stays written.                             *)
(***************************************************************************)
EXTENDS Integers, Sequences, FiniteSets, TLC

\* ---------------------------------------------------------------- bounds
MaxObj == 3

\* ------------------------------------------------------------- constants
None == 0
RootId == 1
Ids == 1..MaxObj
NodeTypes == {"C", "CN", "AN"}
Names == {"a", "b"}

\* ---------------------------------------------------------------- values
\* A Python value held by an attribute: None, an int, a str, a datetime
\* or a reference to a list object (lists are mutable and shared by
\* reference).
NoneV == [t |-> "none", s |-> "", ref |-> 0]
IntV(s) == [t |-> "int", s |-> s, ref |-> 0]
StrV(s) == [t |-> "str", s |-> s, ref |-> 0]
ListV(r) == [t |-> "list", s |-> "", ref |-> r]
DateTimeV(s) == [t |-> "datetime", s |-> s, ref |-> 0]
DateV(s) == [t |-> "date", s |-> s, ref |-> 0]
\* a reference to an object of the heap stored as a value
ObjV(r) == [t |-> "obj", s |-> "", ref |-> r]

\* heap: the ConfigNode and ConfigAttribute objects; lists: the Python list
\* objects; last: the call just made; input: what the scenario was given;
\* held: the value a caller got back and still holds; snap: what get
\* returned for each path when the caller first called it
VARIABLES heap, lists, last, input, held, snap

vars == <<heap, lists, last, input, held, snap>>

\* ------------------------------------------------------------------ heap
FreeObj == [kind |-> "free", name |-> "", parent |-> None, ntype |-> "-",
            depth |-> 0, attrs |-> <<>>, value |-> NoneV]

\* ConfigNode.__init__ without attributes and without template_gen
ConfigNode(h, nm, par, nt) ==
    [kind |-> "node", name |-> nm, parent |-> par, ntype |-> nt,
     depth |-> IF par = None THEN 1 ELSE h[par].depth + 1,
     attrs |-> <<>>, value |-> NoneV]

ConfigAttribute(nm, val, par) ==
    [kind |-> "attr", name |-> nm, parent |-> par, ntype |-> "-",
     depth |-> 0, attrs |-> <<>>, value |-> val]

IsNode(h, i) == h[i].kind = "node"
IsAttr(h, i) == h[i].kind = "attr"

FreeIds(h) == {i \in DOMAIN h : h[i].kind = "free"}
NewId(h) == CHOOSE i \in FreeIds(h) : \A j \in FreeIds(h) : i <= j

SeqToSet(s) == {s[i] : i \in 1..Len(s)}

\* the child Nodes of a node, in the order of self.attributes.values()
ChildNodes(h, n) == SelectSeq(h[n].attrs, LAMBDA c : IsNode(h, c))

\* position of the key nm in the ordered mapping of n, 0 if absent
KeyPos(h, n, nm) ==
    IF \E i \in 1..Len(h[n].attrs) : h[h[n].attrs[i]].name = nm
    THEN CHOOSE i \in 1..Len(h[n].attrs) : h[h[n].attrs[i]].name = nm
    ELSE 0

\* a mapping that puts a new key before the others
PutAttrFront(h, n, obj) ==
    LET p == KeyPos(h, n, h[obj].name) IN
    IF p = 0 THEN [h EXCEPT ![n].attrs = <<obj>> \o @]
    ELSE [h EXCEPT ![n].attrs = [@ EXCEPT ![p] = obj]]

\* self.attributes[key] = obj : an existing key keeps its position
PutAttr(h, n, obj) ==
    LET p == KeyPos(h, n, h[obj].name) IN
    IF p = 0 THEN [h EXCEPT ![n].attrs = Append(@, obj)]
    ELSE [h EXCEPT ![n].attrs = [@ EXCEPT ![p] = obj]]

\* ------------------------------------------------- threaded call state
\* h: the heap, err: the class of the exception in flight ("" for none),
\* msg: its message, ret: the value returned by the last call, calls: the
\* validator callbacks invoked so far
\* A message is the format string used (what) and what was put in it.
MsgP(what, path, val, extra) ==
    [what |-> what, path |-> path, val |-> val, extra |-> extra]
Msg(what, path, val) == MsgP(what, path, val, "")
NoMsg == Msg("", <<>>, NoneV)
Ok(h) == [h |-> h, err |-> "", msg |-> NoMsg, ret |-> None, calls |-> <<>>]
Raise(st, e, m) == [st EXCEPT !.err = e, !.msg = m]
Failed(st) == st.err # ""

\* F applied to the state a call leaves, the call being made once
Then(x, F(_)) == CHOOSE r \in {F(s) : s \in {x}} : TRUE

\* ----------------------------------------------------------- get_path
RECURSIVE NodePath(_, _)
\* ConfigNode.get_path; a path string is the sequence str.split("/") makes
\* of it: "/a/b" is <<"", "a", "b">>, "a" is <<"a">>, "" is <<"">>
NodePath(h, n) ==
    IF h[n].parent = None
    THEN IF h[n].name # "root" THEN <<"", h[n].name>> ELSE <<"">>
    ELSE Append(NodePath(h, h[n].parent), h[n].name)

\* ConfigAttribute.get_path
AttrPath(h, a) ==
    IF h[a].parent = None THEN <<h[a].name>>
    ELSE Append(NodePath(h, h[a].parent), h[a].name)

\* ------------------------------------------------------- set_node_type
RECURSIVE FoundCN(_, _)
\* the while loop of parent_check_cn, started at cur_node
FoundCN(h, cur) ==
    IF cur = None THEN FALSE
    ELSE IF h[cur].ntype = "CN" THEN TRUE
    ELSE FoundCN(h, h[cur].parent)

ChildValue(old, new) ==
    CASE old = "C" /\ new = "AN" -> "CN"
      [] old = "CN" /\ new = "AN" -> "CN"
      [] old = "AN" /\ new = "CN" -> "C"
      [] old = "AN" /\ new = "C" -> "C"
      [] OTHER -> "-"

ParentValue(old, new) ==
    CASE old = "C" /\ new = "CN" -> "AN"
      [] old = "C" /\ new = "AN" -> "AN"
      [] OTHER -> "-"

ParentCheckCN(old, new) ==
    (old = "CN" /\ new = "C") \/ (old = "AN" /\ new = "C")

RECURSIVE SetNodeType(_, _, _)
RECURSIVE ParentLoop(_, _, _)
RECURSIVE ChildLoop(_, _, _, _, _)

\* while cur_node is not None: cur_node.set_node_type(v); cur_node = cur_node.parent
ParentLoop(st, cur, v) ==
    IF Failed(st) \/ cur = None THEN st
    ELSE LET s1 == SetNodeType(st, cur, v)
         IN ParentLoop(s1, s1.h[cur].parent, v)

\* for child in self.attributes.values(): if isinstance(child, ConfigNode)
\* [and child.node_type == C]: child.set_node_type(v)
ChildLoop(st, kids, i, v, onlyC) ==
    IF Failed(st) \/ i > Len(kids) THEN st
    ELSE LET c == kids[i]
             hit == IsNode(st.h, c) /\ (onlyC => st.h[c].ntype = "C")
             s1 == IF hit THEN SetNodeType(st, c, v) ELSE st
         IN ChildLoop(s1, kids, i + 1, v, onlyC)

\* the branch taken when the type changes
ChangeType(st, n, new) ==
    LET old == st.h[n].ntype
        s1 == [st EXCEPT !.h[n].ntype = new]
        s2 == IF ParentCheckCN(old, new) /\ ~FoundCN(s1.h, s1.h[n].parent)
              THEN Raise(s1, "AttributeError",
                         Msg("content_only_no_cn_parent", <<s1.h[n].name>>, NoneV))
              ELSE s1
        s3 == IF ParentValue(old, new) # "-"
              THEN ParentLoop(s2, s2.h[n].parent, ParentValue(old, new))
              ELSE s2
    IN IF ChildValue(old, new) # "-"
       THEN ChildLoop(s3, s3.h[n].attrs, 1, ChildValue(old, new), FALSE)
       ELSE s3

\* the else branch ("On force update"): taken whenever the type is unchanged,
\* the parameter force is never read
SameType(st, n) ==
    LET t == st.h[n].ntype
        p == st.h[n].parent
    IN CASE t = "AN" ->
              LET s1 == IF p # None THEN SetNodeType(st, p, "AN") ELSE st
              IN ChildLoop(s1, s1.h[n].attrs, 1, "CN", TRUE)
         [] t = "CN" ->
              LET s1 == IF p # None THEN SetNodeType(st, p, "AN") ELSE st
              IN ChildLoop(s1, s1.h[n].attrs, 1, "C", FALSE)
         [] OTHER ->
              LET s1 == IF p # None /\ st.h[p].ntype = "AN"
                        THEN SetNodeType(st, p, "CN") ELSE st
              IN ChildLoop(s1, s1.h[n].attrs, 1, "C", FALSE)

SetNodeType(st, n, new) ==
    IF Failed(st) THEN st
    ELSE IF st.h[n].ntype # new THEN ChangeType(st, n, new)
    ELSE SameType(st, n)

\* ---------------------------------------------------------- raw values
\* What a caller passes to add/set besides objects: a nested mapping
\* (ordered items with unique keys) or any other Python value.
RawScalar(v) == [k |-> "scalar", items |-> <<>>, v |-> v]
RawDict(items) == [k |-> "dict", items |-> items, v |-> NoneV]
Item(nm, raw) == [name |-> nm, val |-> raw]
IsDict(raw) == raw.k = "dict"
IsList(raw) == raw.k = "scalar" /\ raw.v.t = "list"

\* Python truth value of a raw value, as tested by "if attributes:"
Truthy(raw) ==
    CASE IsDict(raw) -> Len(raw.items) > 0
      [] IsList(raw) -> Len(lists[raw.v.ref]) > 0
      [] raw.v.t = "none" -> FALSE
      [] raw.v.t = "str" -> raw.v.s # ""
      [] OTHER -> raw.v.s # "0"

\* an element of a list passed to add: a ConfigObject, a 2-tuple or junk
ElemObj(id) == [k |-> "obj", id |-> id, name |-> "", val |-> RawScalar(NoneV)]
ElemTuple(nm, raw) == [k |-> "tuple", id |-> None, name |-> nm, val |-> raw]
ElemBad == [k |-> "bad", id |-> None, name |-> "", val |-> RawScalar(NoneV)]

\* --------------------------------------------------------- _set_parent
RECURSIVE SetParent(_, _, _)
RECURSIVE SetParentKids(_, _, _, _)

SetParentKids(h, n, kids, i) ==
    IF i > Len(kids) THEN h
    ELSE SetParentKids(IF IsNode(h, kids[i]) THEN SetParent(h, kids[i], n) ELSE h,
                       n, kids, i + 1)

\* ConfigNode._set_parent and ConfigAttribute._set_parent
SetParent(h, obj, par) ==
    IF IsAttr(h, obj) THEN [h EXCEPT ![obj].parent = par]
    ELSE LET h1 == [h EXCEPT ![obj].parent = par, ![obj].depth = h[par].depth + 1]
         IN SetParentKids(h1, obj, h1[obj].attrs, 1)

\* ------------------------------------------------------------------ add
RECURSIVE AddDict(_, _, _)
RECURSIVE AddDictLoop(_, _, _, _)
RECURSIVE AddList(_, _, _)
RECURSIVE AddListLoop(_, _, _, _)
RECURSIVE AddRaw(_, _, _)
RECURSIVE NewNode(_, _, _, _)

\* ValueError of add for an argument of no accepted form
AddOther(st, n) ==
    IF Failed(st) THEN st
    ELSE Raise(st, "ValueError", Msg("add_only_accepts", <<>>, NoneV))

\* the elements of a Python list of plain values, seen as arguments of add
PlainElems(ref) == [i \in 1..Len(lists[ref]) |-> ElemBad]

\* add dispatched on the type of a raw value
AddRaw(st, n, raw) ==
    CASE IsDict(raw) -> AddDict(st, n, raw.items)
      [] IsList(raw) -> AddList(st, n, PlainElems(raw.v.ref))
      [] OTHER -> AddOther(st, n)

\* ConfigNode(name, parent=par, attributes=raw): ret is the new object
NewNode(st, nm, par, raw) ==
    IF Failed(st) THEN st
    ELSE LET id == NewId(st.h)
             s1 == [st EXCEPT !.h[id] = ConfigNode(st.h, nm, par, "C")]
             s2 == IF Truthy(raw) THEN AddRaw(s1, id, raw) ELSE s1
         IN [s2 EXCEPT !.ret = id]

\* ConfigAttribute(name, value, parent=par): ret is the new object
NewAttr(st, nm, val, par) ==
    IF Failed(st) THEN st
    ELSE LET id == NewId(st.h)
         IN [st EXCEPT !.h[id] = ConfigAttribute(nm, val, par), !.ret = id]

\* self.attributes[key] = <object just constructed>
AssignNew(st, n) ==
    IF Failed(st) THEN st ELSE [st EXCEPT !.h = PutAttr(st.h, n, st.ret)]

AddDictLoop(st, n, items, i) ==
    IF Failed(st) \/ i > Len(items) THEN st
    ELSE LET it == items[i]
             s1 == IF IsDict(it.val)
                   THEN AssignNew(NewNode(st, it.name, n, it.val), n)
                   ELSE AssignNew(NewAttr(st, it.name, it.val.v, n), n)
         IN AddDictLoop(s1, n, items, i + 1)

\* add(<dict>)
AddDict(st, n, items) ==
    LET s1 == AddDictLoop(st, n, items, 1)
    IN IF Failed(s1) THEN s1 ELSE SetNodeType(s1, n, s1.h[n].ntype)

AddListLoop(st, n, elems, i) ==
    IF Failed(st) \/ i > Len(elems) THEN st
    ELSE LET e == elems[i]
             s1 == CASE e.k = "obj" -> [st EXCEPT !.h = PutAttr(st.h, n, e.id)]
                     [] e.k = "tuple" /\ (IsDict(e.val) \/ IsList(e.val)) ->
                          AssignNew(NewNode(st, e.name, n, e.val), n)
                     [] e.k = "tuple" ->
                          AssignNew(NewAttr(st, e.name, e.val.v, n), n)
                     [] OTHER ->
                          Raise(st, "ValueError", Msg("add_only_accepts", <<>>, NoneV))
         IN AddListLoop(s1, n, elems, i + 1)

\* add(<list>)
AddList(st, n, elems) ==
    LET s1 == AddListLoop(st, n, elems, 1)
    IN IF Failed(s1) THEN s1 ELSE SetNodeType(s1, n, s1.h[n].ntype)

\* add(<ConfigObject>)
AddObject(st, n, obj) ==
    IF Failed(st) THEN st
    ELSE LET h1 == PutAttr(st.h, n, obj)
             h2 == SetParent(h1, obj, n)
         IN SetNodeType([st EXCEPT !.h = h2], n, h2[n].ntype)

\* ---------------------------------------------------------------- paths
\* [x for x in path.split("/") if x != ""]
Segments(path) == SelectSeq(path, LAMBDA x : x # "")

\* the key nm of the ordered mapping of n (nm must be present)
Child(h, n, nm) == h[n].attrs[KeyPos(h, n, nm)]
HasKey(h, n, nm) == KeyPos(h, n, nm) # 0

\* self.attributes.pop(key, None)
PopAttr(h, n, nm) ==
    LET p == KeyPos(h, n, nm) IN
    IF p = 0 THEN h
    ELSE [h EXCEPT ![n].attrs = SubSeq(@, 1, p - 1) \o SubSeq(@, p + 1, Len(@))]

\* --------------------------------------------------------------- delete
RECURSIVE Delete(_, _, _)
Delete(st, n, path) ==
    LET nodes == Segments(path) IN
    IF Failed(st) THEN st
    ELSE IF Len(nodes) = 0
    THEN Raise(st, "ValueError", Msg("no_path_to_delete", <<>>, NoneV))
    ELSE IF Len(nodes) = 1
    THEN [st EXCEPT !.h = PopAttr(st.h, n, nodes[1])]
    ELSE IF ~HasKey(st.h, n, nodes[1])
    THEN Raise(st, "KeyError", Msg("key", <<nodes[1]>>, NoneV))
    ELSE IF IsAttr(st.h, Child(st.h, n, nodes[1]))
    THEN Raise(st, "AttributeError", Msg("no_attribute_delete", <<nodes[1]>>, NoneV))
    ELSE Delete(st, Child(st.h, n, nodes[1]), Tail(nodes))

\* ------------------------------------------------------------------ set
\* the value passed to set: an object of the heap or a raw value
ValObj(id) == [k |-> "obj", id |-> id, raw |-> RawScalar(NoneV)]
ValRaw(raw) == [k |-> "raw", id |-> None, raw |-> raw]

\* add(value) for a value of any kind
AddValue(st, n, val) ==
    IF val.k = "obj" THEN AddObject(st, n, val.id) ELSE AddRaw(st, n, val.raw)

RECURSIVE Set(_, _, _, _)
Set(st, n, path, val) ==
    LET nodes == Segments(path) IN
    IF Failed(st) THEN st
    ELSE IF Len(nodes) = 0 THEN AddValue(st, n, val)
    ELSE IF Len(nodes) = 1
    THEN IF val.k = "obj" /\ IsNode(st.h, val.id)
         THEN AddObject(st, n, val.id)
         ELSE IF val.k = "raw"
         THEN AddDict(st, n, <<Item(nodes[1], val.raw)>>)
         ELSE AddDict(st, n, <<Item(nodes[1], RawScalar(ObjV(val.id)))>>)
    ELSE IF ~HasKey(st.h, n, nodes[1])
    THEN Raise(st, "KeyError", Msg("key", <<nodes[1]>>, NoneV))
    ELSE IF IsAttr(st.h, Child(st.h, n, nodes[1]))
    THEN Raise(st, "AttributeError", Msg("no_attribute_set", <<nodes[1]>>, NoneV))
    ELSE Set(st, Child(st.h, n, nodes[1]), Tail(nodes), val)

\* ------------------------------------------------------------- _get_obj
RECURSIVE GetObj(_, _, _)
\* the object at path below n, None if a segment is missing
GetObj(h, n, path) ==
    LET nodes == Segments(path) IN
    IF IsAttr(h, n) THEN n
    ELSE IF Len(nodes) = 0 THEN n
    ELSE IF ~HasKey(h, n, nodes[1]) THEN None
    ELSE GetObj(h, Child(h, n, nodes[1]), Tail(nodes))

\* ------------------------------------------------------ _to_dict, get
RECURSIVE ToDict(_, _)
\* ConfigNode._to_dict builds a new mapping, key by key in the order of
\* self.attributes; ConfigAttribute._to_dict returns self.value itself, so
\* a list value is the very list object the attribute holds
ToDict(h, o) ==
    IF IsAttr(h, o) THEN RawScalar(h[o].value)
    ELSE RawDict([i \in 1..Len(h[o].attrs) |->
                    Item(h[h[o].attrs[i]].name, ToDict(h, h[o].attrs[i]))])

\* ConfigNode.get
Get(h, n, path) ==
    LET obj == GetObj(h, n, path) IN
    IF obj = None THEN RawScalar(NoneV) ELSE ToDict(h, obj)

\* nothing is held by the caller
NoHeld == [live |-> FALSE, path |-> <<>>, val |-> RawScalar(NoneV)]

\* ------------------------------------------------- garbage collection
RECURSIVE Preorder(_, _)
RECURSIVE PreorderKids(_, _, _)
PreorderKids(h, kids, i) ==
    IF i > Len(kids) THEN <<>>
    ELSE Preorder(h, kids[i]) \o PreorderKids(h, kids, i + 1)
\* the objects referenced from n, n first
Preorder(h, n) == <<n>> \o PreorderKids(h, h[n].attrs, 1)

Reach(h, n) == SeqToSet(Preorder(h, n))

\* where the object o stands in the sequence ord, None if it does not
Index(ord, o) ==
    IF \E i \in 1..Len(ord) : ord[i] = o
    THEN CHOOSE i \in 1..Len(ord) : ord[i] = o
    ELSE None

\* Objects no longer referenced from the root are reclaimed and the live
\* ones are renumbered in preorder: an object id carries no meaning.
Collect(h) ==
    LET ord == Preorder(h, RootId) IN
    [i \in DOMAIN h |->
        IF i > Len(ord) THEN FreeObj
        ELSE LET o == h[ord[i]] IN
             [o EXCEPT !.parent = Index(ord, @),
                       !.attrs = [j \in 1..Len(@) |-> Index(ord, @[j])]]]

InTree(h) == {i \in Reach(h, RootId) : IsNode(h, i)}

\* ====================================================================
\* The tree under mutation: add, set, delete and set_node_type called on
\* any node of a tree that grows from a bare root.
\* ====================================================================

\* --------------------------------------------------------------- inputs
RECURSIVE RawSize(_)
RECURSIVE ItemsSize(_, _)
ItemsSize(items, i) ==
    IF i > Len(items) THEN 0 ELSE 1 + RawSize(items[i].val) + ItemsSize(items, i + 1)
\* the number of objects a raw value materializes into
RawSize(raw) == IF IsDict(raw) THEN ItemsSize(raw.items, 1) ELSE 0

EmptyDict == RawDict(<<>>)
SampleDicts ==
    { RawDict(<<Item("a", EmptyDict)>>),
      RawDict(<<Item("a", RawDict(<<Item("b", EmptyDict)>>))>>),
      RawDict(<<Item("b", RawScalar(IntV("1"))), Item("a", EmptyDict)>>) }

SamplePaths == { <<"", "">>, <<"", "a">>, <<"a", "", "b">> }

\* the items of a dict as the list of tuples list(d.items())
TupleElems(raw) == [i \in 1..Len(raw.items) |-> ElemTuple(raw.items[i].name, raw.items[i].val)]

Room(h, k) == Cardinality(FreeIds(h)) >= k

\* ------------------------------------------------------- observations
\* every child Node of an AN node is CN or AN, every child Node of a CN or
\* of a C node is C
Consistent(h) ==
    \A n \in InTree(h) : \A c \in SeqToSet(ChildNodes(h, n)) :
        IF h[n].ntype = "AN" THEN h[c].ntype \in {"CN", "AN"} ELSE h[c].ntype = "C"

RECURSIVE Ancestors(_, _)
\* the nodes met by following parent from n, n excluded
Ancestors(h, n) ==
    IF h[n].parent = None THEN {} ELSE {h[n].parent} \cup Ancestors(h, h[n].parent)

\* what the last call was, and what held just before it
Record(op, n, new, st) ==
    [op |-> op, node |-> Index(Preorder(st.h, RootId), n), new |-> new,
     old |-> heap[n].ntype, err |-> st.err,
     msg |-> st.msg, preCons |-> Consistent(heap),
     preCN |-> \E a \in Ancestors(heap, n) : heap[a].ntype = "CN"]

NoCall ==
    [op |-> "none", node |-> RootId, new |-> "-", old |-> "-", err |-> "",
     msg |-> NoMsg, preCons |-> TRUE, preCN |-> FALSE]

Finish(op, n, new, st) ==
    /\ heap' = Collect(st.h)
    /\ last' = Record(op, n, new, st)
    /\ UNCHANGED <<lists, input, held, snap>>

\* --------------------------------------------------------------- actions
\* n.set_node_type(t)
DoSetNodeType ==
    /\ last = NoCall
    /\ \E n \in InTree(heap), t \in NodeTypes :
        Finish("set_node_type", n, t, SetNodeType(Ok(heap), n, t))

\* n.add(ConfigNode(nm, node_type=t))
DoAddNode ==
    \E n \in InTree(heap), nm \in Names, t \in NodeTypes :
        /\ last = NoCall
        /\ Room(heap, 1)
        /\ LET id == NewId(heap)
               h0 == [heap EXCEPT ![id] = ConfigNode(heap, nm, None, t)]
           IN Finish("add_object", n, "-", AddObject(Ok(h0), n, id))

\* n.add([ConfigNode(nm, node_type=t)])
DoAddNodeList ==
    \E n \in InTree(heap), nm \in Names, t \in NodeTypes :
        /\ last = NoCall
        /\ Room(heap, 1)
        /\ LET id == NewId(heap)
               h0 == [heap EXCEPT ![id] = ConfigNode(heap, nm, None, t)]
           IN Finish("add_list", n, "-", AddList(Ok(h0), n, <<ElemObj(id)>>))

\* n.add(d) for a nested mapping d
DoAddDict ==
    \E n \in InTree(heap), d \in SampleDicts :
        /\ last = NoCall
        /\ Room(heap, RawSize(d))
        /\ Finish("add_dict", n, "-", AddDict(Ok(heap), n, d.items))

\* n.add(list(d.items()))
DoAddTuples ==
    \E n \in InTree(heap), d \in SampleDicts :
        /\ last = NoCall
        /\ Room(heap, RawSize(d))
        /\ Finish("add_tuples", n, "-", AddList(Ok(heap), n, TupleElems(d)))

\* n.add(5), n.add([5])
DoAddInvalid ==
    /\ last = NoCall
    /\ \E n \in InTree(heap), bad \in BOOLEAN :
        Finish("add_invalid", n, "-",
               IF bad THEN AddOther(Ok(heap), n) ELSE AddList(Ok(heap), n, <<ElemBad>>))

\* n.set(path, d) for a nested mapping or a plain value d
DoSet ==
    \E n \in InTree(heap), path \in SamplePaths,
       d \in {EmptyDict, RawScalar(IntV("1"))} :
        /\ last = NoCall
        /\ Room(heap, 1)
        /\ Finish("set", n, "-", Set(Ok(heap), n, path, ValRaw(d)))

\* the paths given to delete: "/", "/a", "a//b" and ""
DeletePaths == SamplePaths \cup { <<"">> }

\* n.delete(path); the caller keeps the path and what the tree was
DoDelete ==
    /\ last = NoCall
    /\ \E n \in InTree(heap), path \in DeletePaths :
        LET st == Delete(Ok(heap), n, path)
        IN /\ heap' = Collect(st.h)
           /\ last' = Record("delete", n, "-", st)
           /\ held' = [NoHeld EXCEPT !.path = path]
    /\ snap' = heap
    /\ UNCHANGED <<lists, input>>

\* the caller has looked at the outcome of the call and moves on
Return ==
    /\ last # NoCall
    /\ last' = NoCall
    /\ held' = NoHeld
    /\ snap' = <<>>
    /\ UNCHANGED <<heap, lists, input>>

Init ==
    /\ \E t \in NodeTypes :
          heap = [i \in Ids |-> IF i = RootId THEN ConfigNode(<<>>, "root", None, t)
                                ELSE FreeObj]
    /\ lists = <<>>
    /\ last = NoCall
    /\ input = EmptyDict
    /\ held = NoHeld
    /\ snap = <<>>

Next ==
    \/ DoSetNodeType
    \/ DoAddNode
    \/ DoAddNodeList
    \/ DoAddDict
    \/ DoAddTuples
    \/ DoAddInvalid
    \/ DoSet
    \/ DoDelete
    \/ Return

Spec == Init /\ [][Next]_vars

\* ====================================================================
\* The round trip: a tree is built from a nested mapping, a caller reads
\* it with get, keeps what it got and changes it.
\* ====================================================================

\* the longest a list grows
MaxList == 2

\* --------------------------------------------------------------- inputs
\* the values of a mapping that are not mappings: a number and a list
GetLeaves == {RawScalar(IntV("1")), RawScalar(ListV(1))}

\* the mappings nested in the input: empty or with one key
GetInner ==
    {EmptyDict} \cup {RawDict(<<Item(nm, v)>>) : nm \in Names, v \in GetLeaves}

GetValues == GetLeaves \cup GetInner

\* the mappings M given to ConfigNode("root", attributes=M)
GetDicts ==
    {EmptyDict}
    \cup {RawDict(<<Item(nm, v)>>) : nm \in Names, v \in GetValues}
    \cup {RawDict(<<Item(nm, v), Item(CHOOSE o \in Names : o # nm, w)>>) :
            nm \in Names, v \in GetValues, w \in GetValues}

\* the paths given to get: none, "/a", "/a/b", "b"
GetPaths == { <<>>, <<"", "a">>, <<"", "a", "b">>, <<"b">> }

\* ------------------------------------------------------- observations
RECURSIVE DeepValue(_)
\* a Python value compared with ==: a list counts by its elements
DeepValue(raw) ==
    IF IsDict(raw)
    THEN [k |-> "dict", v |-> NoneV, elems |-> <<>>,
          items |-> [i \in 1..Len(raw.items) |->
                        Item(raw.items[i].name, DeepValue(raw.items[i].val))]]
    ELSE IF IsList(raw)
    THEN [k |-> "list", v |-> NoneV, elems |-> lists[raw.v.ref], items |-> <<>>]
    ELSE [k |-> "scalar", v |-> raw.v, elems |-> <<>>, items |-> <<>>]

RECURSIVE Positions(_)
\* the keys of a held mapping and of the mappings nested in it
Positions(raw) ==
    IF ~IsDict(raw) THEN {}
    ELSE UNION { {<<i>>} \cup {<<i>> \o p : p \in Positions(raw.items[i].val)} :
                 i \in 1..Len(raw.items) }

RECURSIVE At(_, _)
At(raw, pos) == IF pos = <<>> THEN raw ELSE At(raw.items[pos[1]].val, Tail(pos))

RECURSIVE ReplaceAt(_, _, _)
\* held[k1][k2]... = new
ReplaceAt(raw, pos, new) ==
    IF pos = <<>> THEN new
    ELSE RawDict([raw.items EXCEPT ![pos[1]].val = ReplaceAt(@, Tail(pos), new)])

RECURSIVE ListRefs(_)
\* the list objects reachable from a held value
ListRefs(raw) ==
    IF IsDict(raw) THEN UNION {ListRefs(raw.items[i].val) : i \in 1..Len(raw.items)}
    ELSE IF IsList(raw) THEN {raw.v.ref}
    ELSE {}

Called(op) == [NoCall EXCEPT !.op = op]

\* --------------------------------------------------------------- actions
\* root = ConfigNode("root", attributes=M)
DoBuild ==
    /\ heap[RootId].kind = "free"
    /\ heap' = NewNode(Ok(heap), "root", None, input).h
    /\ last' = Called("build")
    /\ UNCHANGED <<lists, input, held, snap>>

\* held = root.get(path)
DoGet ==
    /\ heap[RootId].kind = "node"
    /\ \E path \in GetPaths :
          held' = [live |-> TRUE, path |-> path, val |-> Get(heap, RootId, path)]
    /\ snap' = IF held.live THEN snap
               ELSE [p \in GetPaths |-> DeepValue(Get(heap, RootId, p))]
    /\ last' = Called("get")
    /\ UNCHANGED <<heap, lists, input>>

\* held[k] = "changed" where held[k] is not a mapping
MutateKey ==
    /\ held.live
    /\ \E pos \in Positions(held.val) :
          /\ ~IsDict(At(held.val, pos))
          /\ held' = [held EXCEPT !.val = ReplaceAt(@, pos, RawScalar(StrV("changed")))]
    /\ last' = Called("mutate")
    /\ UNCHANGED <<heap, lists, input, snap>>

\* held[k] = {"b": "abc"} where held[k] is a mapping
MutateNested ==
    /\ held.live
    /\ \E pos \in Positions(held.val) :
          /\ IsDict(At(held.val, pos))
          /\ held' = [held EXCEPT !.val =
                        ReplaceAt(@, pos, RawDict(<<Item("b", RawScalar(StrV("abc")))>>))]
    /\ last' = Called("mutate")
    /\ UNCHANGED <<heap, lists, input, snap>>

\* held[k].append("x") where held[k] is a list, or held.append("x")
MutateList ==
    /\ held.live
    /\ \E ref \in ListRefs(held.val) :
          /\ Len(lists[ref]) < MaxList
          /\ lists' = [lists EXCEPT ![ref] = Append(@, "x")]
    /\ last' = Called("mutate")
    /\ UNCHANGED <<heap, input, held, snap>>

InitGet ==
    /\ input \in GetDicts
    /\ heap = [i \in 1..(1 + RawSize(input)) |-> FreeObj]
    /\ lists = << <<"1">> >>
    /\ last = NoCall
    /\ held = NoHeld
    /\ snap = <<>>

NextGet ==
    \/ DoBuild
    \/ DoGet
    \/ MutateKey
    \/ MutateNested
    \/ MutateList

SpecGet == InitGet /\ [][NextGet]_vars

\* ====================================================================
\* search.
\* ====================================================================

\* the deepest search asked for
MaxDepth == 3

\* the criteria given to search: lambda v: v == 5
Criteria(v) == v = IntV("5")

\* os.path.join(path, result) for a relative result
PathJoin(path, result) ==
    IF path = <<"">> THEN result
    ELSE IF path[Len(path)] = "" THEN SubSeq(path, 1, Len(path) - 1) \o result
    ELSE path \o result

\* [os.path.join(self.name, result) for result in results]
JoinAll(nm, results) == [j \in 1..Len(results) |-> <<nm>> \o results[j]]

RECURSIVE SearchHere(_, _, _, _, _)
RECURSIVE SearchLoop(_, _, _, _, _, _)

\* a test of the child nodes that looks at no child
DepthHitAny(h, c, name, depth) == depth > 1

\* depth > 1 and len(attribute._search_here(name, criteria, depth - 1, False)) > 0
DepthHit(h, c, name, depth) ==
    depth > 1 /\ Len(SearchHere(h, c, name, depth - 1, FALSE)) > 0

\* what one pass of the loop of _search_here adds to results
SearchStep(h, e, c, name, depth, recursive) ==
    IF IsNode(h, c)
    THEN (IF recursive
          THEN JoinAll(h[e].name, SearchHere(h, c, name, depth, recursive))
          ELSE <<>>)
         \o (IF DepthHit(h, c, name, depth) THEN << <<h[e].name>> >> ELSE <<>>)
    ELSE IF name # "" /\ name # h[c].name THEN <<>>
    ELSE IF Criteria(h[c].value) THEN << <<h[e].name>> >>
    ELSE <<>>

\* for a_name, attribute in self.attributes.items()
SearchLoop(h, e, i, name, depth, recursive) ==
    IF i > Len(h[e].attrs) THEN <<>>
    ELSE SearchStep(h, e, h[e].attrs[i], name, depth, recursive)
         \o SearchLoop(h, e, i + 1, name, depth, recursive)

\* ConfigNode._search_here: the list results; a name of None is ""
SearchHere(h, e, name, depth, recursive) ==
    SearchLoop(h, e, 1, name, depth, recursive)

\* ConfigNode.search: the list made of a set, in no order that matters
Search(h, n, path, name, depth, recursive) ==
    LET kids == ChildNodes(h, GetObj(h, n, path))
    IN UNION {{PathJoin(path, r) :
                  r \in SeqToSet(SearchHere(h, kids[i], name, depth, recursive))} :
              i \in 1..Len(kids)}

\* --------------------------------------------------------------- inputs
\* mappings with no mapping in them
SearchFlat ==
    {EmptyDict} \cup {RawDict(<<Item("b", RawScalar(v))>>) : v \in {IntV("2"), IntV("5")}}

\* mappings one level deep, {"i": 2, "n": {"b": 5, "n2": {}}} among them
SearchNested ==
    SearchFlat
    \cup {RawDict(<<Item("i", RawScalar(v)), Item("n", d)>>) :
             v \in {IntV("2"), IntV("5")}, d \in SearchFlat}
    \cup {RawDict(<<Item("i", RawScalar(IntV("2"))),
                    Item("n", RawDict(<<Item("b", RawScalar(v)), Item("n2", EmptyDict)>>))>>) :
             v \in {IntV("2"), IntV("5")}}
    \cup {RawDict(<<Item("n", d), Item("n2", e)>>) : d, e \in SearchFlat}

\* the mappings given to ConfigNode("root", attributes=M): t1 holds a
\* nested mapping, directly or one level further down
SearchDicts ==
    {RawDict(<<Item("t1", d)>>) : d \in SearchNested}
    \cup {RawDict(<<Item("t1", RawDict(<<Item("n", d)>>))>>) : d \in SearchNested}

\* the paths search starts at: "/", "/t1", "/t1/", "/t1/n"
SearchPaths == { <<"", "">>, <<"", "t1">>, <<"", "t1", "">>, <<"", "t1", "n">> }

\* the attribute names asked for; "" stands for None
SearchNames == {"", "b", "i"}

\* --------------------------------------------------------------- actions
\* held = root.search(path, name, lambda v: v == 5, depth, recursive), for
\* a path that leads to a node
DoSearch ==
    /\ heap[RootId].kind = "node"
    /\ \E path \in SearchPaths, name \in SearchNames, depth \in 1..MaxDepth,
          recursive \in BOOLEAN :
          /\ GetObj(heap, RootId, path) # None
          /\ IsNode(heap, GetObj(heap, RootId, path))
          /\ held' = [live |-> TRUE, path |-> path, name |-> name, depth |-> depth,
                      recursive |-> recursive,
                      result |-> Search(heap, RootId, path, name, depth, recursive)]
    /\ last' = Called("search")
    /\ UNCHANGED <<heap, lists, input, snap>>

InitSearch ==
    /\ input \in SearchDicts
    /\ heap = [i \in 1..(1 + RawSize(input)) |-> FreeObj]
    /\ lists = << <<"1">> >>
    /\ last = NoCall
    /\ held = NoHeld
    /\ snap = <<>>

NextSearch ==
    \/ DoBuild
    \/ DoSearch

SpecSearch == InitSearch /\ [][NextSearch]_vars

\* ====================================================================
\* Template validation.
\* ====================================================================

\* ------------------------------------------------------------ templates
\* TemplateAttributeFixed(name, optional, value_type, validator, default_value)
TemplateAttributeFixed(nm, opt, vt, vd, dv) ==
    [k |-> "attr", name |-> nm, optional |-> opt, value_type |-> vt,
     validator |-> vd, default_value |-> dv, node_type |-> "-",
     attributes |-> <<>>, names_lst |-> <<>>]

\* TemplateNodeFixed(name, optional, validator, node_type) followed by one
\* add per child template
TemplateNodeFixed(nm, opt, vd, nt, kids) ==
    [k |-> "fixed", name |-> nm, optional |-> opt, value_type |-> "-",
     validator |-> vd, default_value |-> NoneV, node_type |-> nt,
     attributes |-> kids, names_lst |-> <<>>]

\* TemplateNodeSet(name, node, names_lst): optional, no validator, no
\* node_type, and the element template as its one attribute
TemplateNodeSet(nm, node, names) ==
    [k |-> "set", name |-> nm, optional |-> TRUE, value_type |-> "-",
     validator |-> "none", default_value |-> NoneV, node_type |-> "-",
     attributes |-> <<node>>, names_lst |-> names]

\* ------------------------------------------------ types and validators
\* isinstance(value, value_type); datetime is a subclass of date
IsInstance(v, vt) ==
    CASE vt = "int" -> v.t = "int"
      [] vt = "str" -> v.t = "str"
      [] vt = "date" -> v.t \in {"date", "datetime"}
      [] OTHER -> FALSE

\* the literals int() accepts
Numerals == {"0", "1", "5"}

\* str(value) for the values that are not strings
Str(v) ==
    CASE v.t = "int" -> StrV(v.s)
      [] v.t = "list" -> StrV("[...]")
      [] v.t \in {"date", "datetime"} -> StrV(v.s)
      [] OTHER -> v

\* value_type(value): the value made, or the class of the exception raised
Construct(vt, v) ==
    CASE vt = "str" -> [err |-> "", val |-> Str(v)]
      [] vt = "int" /\ v.t = "str" /\ v.s \in Numerals ->
            [err |-> "", val |-> IntV(v.s)]
      [] vt = "int" /\ v.t = "str" -> [err |-> "ValueError", val |-> v]
      [] OTHER -> [err |-> "TypeError", val |-> v]

\* The validators given to attribute templates, and what each does with a
\* value: "true", "false" or the class of the exception it raises.
\*   accept            lambda x: True
\*   reject            lambda x: False
\*   raise_value_error a function that raises ValueError
\*   in_choices        lambda x: x in ["abc", "5"]
\*   upper_in          lambda x: x.upper() in ["ABC"]
Validators == {"none", "accept", "reject", "raise_value_error", "in_choices", "upper_in"}

CallValidator(vd, v) ==
    CASE vd = "accept" -> "true"
      [] vd = "reject" -> "false"
      [] vd = "raise_value_error" -> "ValueError"
      [] vd = "in_choices" ->
            IF v.t = "str" /\ v.s \in {"abc", "5"} THEN "true" ELSE "false"
      [] vd = "upper_in" ->
            IF v.t # "str" THEN "AttributeError"
            ELSE IF v.s = "abc" THEN "true" ELSE "false"
      [] OTHER -> "true"

\* ----------------------------------------- TemplateAttributeBase.validate
\* the try block that coerces value.value to value_type
Coerce(st, t, a) ==
    LET v == st.h[a].value
        c == Construct(t.value_type, v)
    IN IF v = NoneV \/ IsInstance(v, t.value_type) THEN st
       ELSE IF c.err = "" THEN [st EXCEPT !.h[a].value = c.val]
       ELSE IF c.err # "ValueError"
       THEN Raise(st, c.err, Msg("constructor", <<>>, v))
       ELSE IF t.value_type = "date" /\ v.t = "datetime"
       THEN [st EXCEPT !.h[a].value = DateV(v.s)]
       ELSE IF v # NoneV /\ v # StrV("")
       THEN Raise(st, "ValueError",
                  MsgP("expecting_type", AttrPath(st.h, a), NoneV, t.value_type))
       ELSE st

\* a validator step that calls the validator and goes on whatever it says
IgnoreValidator(st, t, a) ==
    IF Failed(st) \/ t.validator = "none" \/ (t.optional /\ st.h[a].value = NoneV) THEN st
    ELSE [st EXCEPT !.calls = Append(@, [validator |-> t.validator, val |-> st.h[a].value,
                                        path |-> AttrPath(st.h, a)])]

\* the validator step
RunValidator(st, t, a) ==
    LET v == st.h[a].value
        out == CallValidator(t.validator, v)
        s1 == [st EXCEPT !.calls = Append(@, [validator |-> t.validator, val |-> v,
                                             path |-> AttrPath(st.h, a)])]
    IN IF Failed(st) \/ t.validator = "none" THEN st
       ELSE IF t.optional /\ v = NoneV THEN st
       ELSE IF out = "true" THEN s1
       ELSE IF out = "false"
       THEN Raise(s1, "ValueError",
                  Msg("parameter_failed_validation", AttrPath(st.h, a), v))
       ELSE IF out = "ValueError"
       THEN Raise(s1, "ValueError",
                  MsgP("parameter_failed_validation", AttrPath(st.h, a), v, "ValueError"))
       ELSE Raise(s1, out, Msg("validator", <<>>, v))

\* a return without the check of a mandatory attribute
NoMandatoryCheck(st, t, a) ==
    IF Failed(st) THEN st
    ELSE [st EXCEPT !.ret = IF st.h[a].value = NoneV THEN None ELSE a]

\* the check of a mandatory attribute and the return
MandatoryCheck(st, t, a) ==
    IF Failed(st) THEN st
    ELSE IF ~t.optional /\ st.h[a].value = NoneV
    THEN Raise(st, "ValueError",
               Msg("mandatory_parameter_not_set", AttrPath(st.h, a), NoneV))
    ELSE [st EXCEPT !.ret = IF st.h[a].value = NoneV THEN None ELSE a]

\* TemplateAttributeBase.validate(value, name); a Node given as value has
\* no attribute "value"
ValidateAttrBase(st, t, a) ==
    IF Failed(st) THEN st
    ELSE IF IsNode(st.h, a)
    THEN Raise(st, "AttributeError", Msg("no_attribute_value", <<>>, NoneV))
    ELSE MandatoryCheck(RunValidator(Coerce(st, t, a), t, a), t, a)

\* TemplateAttributeFixed.validate(value)
ValidateAttrFixed(st, t, a) ==
    IF Failed(st) THEN st
    ELSE IF a = None
    THEN Then(NewAttr(st, t.name, t.default_value, None),
              LAMBDA s1 : ValidateAttrBase(s1, t, s1.ret))
    ELSE ValidateAttrBase(st, t, a)

\* --------------------------------------------- TemplateNodeBase.validate
\* the validator of a node template is given node.get()
NodeValidator(st, t, n) ==
    LET d == Get(st.h, n, <<>>)
        out == CallValidator(t.validator, [t |-> "dict", s |-> "", ref |-> 0])
        s1 == [st EXCEPT !.calls = Append(@, [validator |-> t.validator, val |-> d,
                                             path |-> NodePath(st.h, n)])]
    IN IF Failed(st) \/ t.validator = "none" THEN st
       ELSE IF out = "true" THEN s1
       ELSE IF out = "false"
       THEN Raise(s1, "ValueError", Msg("node_failed_validation", NodePath(st.h, n), NoneV))
       ELSE IF out = "ValueError"
       THEN Raise(s1, "ValueError",
                  MsgP("node_failed_validation", NodePath(st.h, n), NoneV, "ValueError"))
       ELSE Raise(s1, out, Msg("validator", <<>>, NoneV))

\* if self.node_type and self.node_type != node.node_type: set_node_type
NodeTypeHint(st, t, n) ==
    IF Failed(st) THEN st
    ELSE Then(IF t.node_type # "-" /\ t.node_type # st.h[n].ntype
              THEN SetNodeType(st, n, t.node_type) ELSE st,
              LAMBDA s1 : IF Failed(s1) THEN s1 ELSE [s1 EXCEPT !.ret = n])

\* ConfigNode(name): ret is the new object
BareNode(st, nm) ==
    LET id == NewId(st.h)
    IN [st EXCEPT !.h[id] = ConfigNode(st.h, nm, None, "C"), !.ret = id]

\* a validate that makes a node for every absent node, optional or not
SynthesizeAbsent(st, t, n) ==
    IF Failed(st) THEN st
    ELSE IF n = None
    THEN Then(BareNode(st, t.name),
              LAMBDA s1 : NodeTypeHint(NodeValidator(s1, t, s1.ret), t, s1.ret))
    ELSE IF ~IsNode(st.h, n)
    THEN Raise(st, "ValueError", Msg("not_a_confignode", <<t.name>>, NoneV))
    ELSE IF Len(t.attributes) = 0
    THEN Raise(st, "ValueError", Msg("template_has_no_attributes", <<t.name>>, NoneV))
    ELSE NodeTypeHint(NodeValidator(st, t, n), t, n)

\* TemplateNodeBase.validate(node): ret is the node to go on with, None for
\* an absent optional node
ValidateNodeBase(st, t, n) ==
    IF Failed(st) THEN st
    ELSE IF n = None
    THEN IF t.optional THEN [st EXCEPT !.ret = None]
         ELSE Then(BareNode(st, t.name),
                   LAMBDA s1 : NodeTypeHint(NodeValidator(s1, t, s1.ret), t, s1.ret))
    ELSE IF ~IsNode(st.h, n)
    THEN Raise(st, "ValueError", Msg("not_a_confignode", <<t.name>>, NoneV))
    ELSE IF Len(t.attributes) = 0
    THEN Raise(st, "ValueError", Msg("template_has_no_attributes", <<t.name>>, NoneV))
    ELSE NodeTypeHint(NodeValidator(st, t, n), t, n)

\* ConfigNode.list_attributes()
ListAttributes(h, n) ==
    {h[c].name : c \in {x \in SeqToSet(h[n].attrs) : IsAttr(h, x)}}

\* a validate whose result is dropped
DropBack(st, n, nv) == st

\* what validate returned goes back into the node, unless it is None, a null
\* attribute or an empty node
AddBack(st, n, nv) ==
    IF Failed(st) \/ nv = None THEN st
    ELSE IF (IsAttr(st.h, nv) /\ st.h[nv].value # NoneV)
            \/ (IsNode(st.h, nv) /\ Len(st.h[nv].attrs) > 0)
    THEN AddObject(st, n, nv) ELSE st

\* the end of the validate of a node template: an empty node is an error
\* if the template is mandatory and None otherwise
EmptyCheck(st, t, n) ==
    IF Failed(st) THEN st
    ELSE IF n = None
    THEN Raise(st, "AttributeError", Msg("none_has_no_attributes", <<>>, NoneV))
    ELSE IF ~t.optional /\ t.k = "fixed" /\ Len(st.h[n].attrs) = 0
    THEN Raise(st, "ValueError",
               Msg("mandatory_node_missing", NodePath(st.h, n), NoneV))
    ELSE [st EXCEPT !.ret = IF Len(st.h[n].attrs) = 0 THEN None ELSE n]

RECURSIVE Validate(_, _, _)
RECURSIVE ValidateNodeFixed(_, _, _)
RECURSIVE FixedLoop(_, _, _, _)
RECURSIVE ValidateNodeSet(_, _, _)
RECURSIVE SetLoop(_, _, _, _)

\* ----------------------------------------- TemplateNodeFixed.validate
\* test_attr: an attribute made of the default value when the template is
\* an attribute template and the node has no attribute of that name
TestAttr(st, at, cur) ==
    IF at.k = "attr" /\ at.name \notin ListAttributes(st.h, cur)
    THEN NewAttr(st, at.name, at.default_value, cur)
    ELSE [st EXCEPT !.ret = None]

\* what is passed to the validate of the child template
ChildArg(st, at, cur) ==
    IF HasKey(st.h, cur, at.name) THEN GetObj(st.h, cur, <<at.name>>) ELSE st.ret

\* the body of the loop for a child template that is not a node set
FixedStep(st, at, cur) ==
    Then(Then(TestAttr(st, at, cur), LAMBDA s1 : Validate(s1, at, ChildArg(s1, at, cur))),
         LAMBDA s2 : AddBack(s2, cur, s2.ret))

\* for attr_t_name, attr_t in self.attributes.items(); cur is the local
\* variable node, which a node set may have replaced by None
FixedLoop(st, t, cur, i) ==
    IF Failed(st) THEN st
    ELSE IF i > Len(t.attributes) THEN [st EXCEPT !.ret = cur]
    ELSE IF t.attributes[i].k # "set" /\ cur = None
    THEN Raise(st, "AttributeError", Msg("none_has_no_attributes", <<>>, NoneV))
    ELSE Then(IF t.attributes[i].k = "set"
              THEN ValidateNodeSet(st, t.attributes[i], cur)
              ELSE [FixedStep(st, t.attributes[i], cur) EXCEPT !.ret = cur],
              LAMBDA s1 : FixedLoop(s1, t, s1.ret, i + 1))

ValidateNodeFixed(st, t, n) ==
    Then(ValidateNodeBase(st, t, n),
         LAMBDA s1 : IF Failed(s1) \/ s1.ret = None THEN s1
                     ELSE Then(FixedLoop(s1, t, s1.ret, 1),
                               LAMBDA s2 : EmptyCheck(s2, t, s2.ret)))

\* ------------------------------------------- TemplateNodeSet.validate
\* node.add(ConfigNode(name)) for a name that is missing
AddMissing(st, n, name) ==
    Then(BareNode(st, name), LAMBDA s0 : AddObject(s0, n, s0.ret))

\* the body of the loop for one name; elem is the element template
SetStep(st, elem, n, name) ==
    IF ~HasKey(st.h, n, name) /\ elem.optional THEN st
    ELSE Then(Then(IF ~HasKey(st.h, n, name) THEN AddMissing(st, n, name) ELSE st,
                   LAMBDA s1 : IF Failed(s1) THEN s1
                               ELSE Validate(s1, elem, GetObj(s1.h, n, <<name>>))),
              LAMBDA s2 : AddBack(s2, n, s2.ret))

\* for name in self.names_lst
SetLoop(st, t, n, i) ==
    IF Failed(st) \/ i > Len(t.names_lst) THEN st
    ELSE SetLoop(SetStep(st, t.attributes[1], n, t.names_lst[i]), t, n, i + 1)

ValidateNodeSet(st, t, n) ==
    Then(ValidateNodeBase(st, t, n),
         LAMBDA s1 : IF Failed(s1) \/ s1.ret = None THEN s1
                     ELSE EmptyCheck(SetLoop(s1, t, s1.ret, 1), t, s1.ret))

\* template.validate(x), by the class of the template
Validate(st, t, x) ==
    CASE t.k = "attr" -> ValidateAttrFixed(st, t, x)
      [] t.k = "fixed" -> ValidateNodeFixed(st, t, x)
      [] OTHER -> ValidateNodeSet(st, t, x)

\* ====================================================================
\* A tree is loaded from a mapping and validated against a template, or
\* the template is given None for a node that is absent.
\* ====================================================================

\* --------------------------------------------------------------- inputs
\* the values found in the data
ValValues ==
    {NoneV, IntV("5"), StrV("5"), StrV("abc"), StrV(""), ListV(1),
     DateTimeV("2020-01-01 00:00:00")}

ValDefaults == {NoneV, StrV("abc"), StrV("5")}

ValTypes == {"int", "str", "date"}

\* one attribute: a root template with the attribute template "a", over a
\* root with or without the attribute
AttrScenarios ==
    {[tmpl |-> TemplateNodeFixed("root", TRUE, "none", "-",
                   <<TemplateAttributeFixed("a", opt, vt, vd, dv)>>),
      data |-> d] :
        opt \in BOOLEAN, vt \in ValTypes, vd \in Validators, dv \in ValDefaults,
        d \in {EmptyDict} \cup {RawDict(<<Item("a", RawScalar(v))>>) : v \in ValValues}}

\* a node template with no child templates, over an empty node, a
\* populated node and a node with an empty child
BareScenarios ==
    {[tmpl |-> TemplateNodeFixed(nm, opt, "none", "-", <<>>), data |-> d] :
        nm \in {"root", "a"}, opt \in BOOLEAN,
        d \in {EmptyDict, RawDict(<<Item("a", RawScalar(IntV("1")))>>),
               RawDict(<<Item("a", EmptyDict)>>)}}

\* the attribute templates of the element template of a node set
ElemX ==
    {TemplateAttributeFixed("x", opt, vt, vd, dv) :
        opt \in BOOLEAN, vt \in {"str", "int"}, vd \in {"none", "in_choices"},
        dv \in ValDefaults}

ElemY ==
    {TemplateAttributeFixed("y", opt, "str", "none", dv) :
        opt \in BOOLEAN, dv \in {NoneV, StrV("abc")}}

ElemKids == {<<x>> : x \in ElemX} \cup {<<x, y>> : x \in {e \in ElemX : e.value_type = "str"}, y \in ElemY}

\* a node set of the names a, b or of a alone under the root, over roots
\* that hold none, one or both of the names
SetData ==
    {EmptyDict,
     RawDict(<<Item("a", EmptyDict)>>),
     RawDict(<<Item("a", RawDict(<<Item("x", RawScalar(StrV("abc")))>>))>>),
     RawDict(<<Item("a", RawDict(<<Item("z", RawScalar(StrV("5")))>>))>>),
     RawDict(<<Item("b", RawDict(<<Item("x", RawScalar(StrV("zzz")))>>))>>),
     RawDict(<<Item("a", RawScalar(IntV("1")))>>)}

SetScenarios ==
    {[tmpl |-> TemplateNodeFixed("root", FALSE, "none", "-",
                   <<TemplateNodeSet("set",
                        TemplateNodeFixed("elem", eopt, "none", "-", kids), names)>>),
      data |-> d] :
        eopt \in BOOLEAN, kids \in ElemKids, names \in {<<"a">>, <<"a", "b">>},
        d \in SetData}

\* the data given to a chain of templates root / b / a / x: each level
\* absent, empty, a plain value where a node is expected, or a node where
\* the attribute x is expected
DeepData ==
    LET B(v) == RawDict(<<Item("b", v)>>)
        A(v) == B(RawDict(<<Item("a", v)>>))
        X(v) == A(RawDict(<<Item("x", v)>>))
    IN {EmptyDict, B(RawScalar(IntV("5"))), B(EmptyDict), A(RawScalar(IntV("5"))),
        A(EmptyDict), X(RawScalar(StrV("abc"))), X(RawScalar(StrV("zzz"))), X(EmptyDict)}

\* a root template with the node template b, which has the node template
\* a, which has the attribute template x; the root and b may carry a
\* node_type
DeepScenarios ==
    {[tmpl |-> TemplateNodeFixed("root", FALSE, "none", rnt,
                   <<TemplateNodeFixed("b", bopt, "none", bnt,
                        <<TemplateNodeFixed("a", aopt, "none", "-",
                             <<TemplateAttributeFixed("x", xopt, "str", vd, dv)>>)>>)>>),
      data |-> d] :
        rnt \in {"-", "AN"}, bnt \in {"-", "C"}, bopt \in BOOLEAN, aopt \in BOOLEAN,
        xopt \in BOOLEAN, vd \in {"none", "in_choices"}, dv \in {NoneV, StrV("abc")},
        d \in DeepData}

\* the data given to the template root / (a, n / x, b): each attribute
\* absent, accepted by its validator or rejected by it, the node n absent,
\* empty or with the attribute x
OrderData ==
    LET Vals(nm) == {<<>>, <<Item(nm, RawScalar(StrV("abc")))>>,
                     <<Item(nm, RawScalar(StrV("zzz")))>>}
    IN {RawDict(a \o n \o b) :
          a \in Vals("a"),
          n \in {<<>>, <<Item("n", EmptyDict)>>} \cup {<<Item("n", RawDict(x))>> : x \in Vals("x") \ {<<>>}},
          b \in Vals("b")}

\* an optional root template with a validator, the attribute template a,
\* the node template n with a validator and the attribute template x, and
\* the mandatory attribute template b without a validator, declared in
\* this order
OrderScenarios ==
    {[tmpl |-> TemplateNodeFixed("root", TRUE, rv, "-",
                   <<TemplateAttributeFixed("a", aopt, "str", "in_choices", NoneV),
                     TemplateNodeFixed("n", nopt, nv, "-",
                         <<TemplateAttributeFixed("x", xopt, "str", "in_choices", NoneV)>>),
                     TemplateAttributeFixed("b", FALSE, "str", "none", NoneV)>>),
      data |-> d] :
        rv \in {"none", "accept", "reject", "upper_in"},
        nv \in {"none", "accept", "reject", "raise_value_error"},
        aopt \in BOOLEAN, nopt \in BOOLEAN, xopt \in BOOLEAN,
        d \in OrderData}

\* a chain of node templates root / b / a with the attribute template x,
\* each with or without a node_type, over a tree that has the whole chain
\* or stops at b
HintScenarios ==
    {[tmpl |-> TemplateNodeFixed("root", FALSE, "none", rnt,
                   <<TemplateNodeFixed("b", FALSE, "none", bnt,
                        <<TemplateAttributeFixed("s", TRUE, "str", "none", NoneV),
                          TemplateNodeFixed("a", TRUE, "none", ant,
                             <<TemplateAttributeFixed("x", TRUE, "str", "none", NoneV)>>)>>)>>),
      data |-> d] :
        rnt \in {"-", "C", "CN", "AN"}, bnt \in {"-", "C", "CN", "AN"},
        ant \in {"-", "C", "CN", "AN"},
        d \in {RawDict(<<Item("b", RawDict(<<Item("s", RawScalar(StrV("abc")))>>))>>),
               RawDict(<<Item("b", RawDict(<<Item("a",
                    RawDict(<<Item("x", RawScalar(StrV("abc")))>>))>>))>>)}}

\* the data given to the template root / (n / x, m / y): other children
\* than n and m, the node n itself, or nothing
OptData ==
    LET S(v) == Item("s", v)
        Y == RawDict(<<Item("y", RawScalar(StrV("abc")))>>)
        V == Item("v", RawScalar(StrV("abc")))
    IN {EmptyDict, RawDict(<<S(Y)>>), RawDict(<<V>>), RawDict(<<S(Y), V>>),
        RawDict(<<S(EmptyDict)>>), RawDict(<<Item("n", EmptyDict)>>),
        RawDict(<<Item("n", RawDict(<<Item("x", RawScalar(StrV("abc")))>>)), S(Y)>>),
        RawDict(<<V, Item("m", Y)>>)}

\* a mandatory root template with the node template n, which has the
\* attribute template x, alone or followed by the optional node template m
\* with the mandatory attribute template y
OptScenarios ==
    {[tmpl |-> TemplateNodeFixed("root", FALSE, "none", rnt,
                   <<TemplateNodeFixed("n", nopt, nv, nnt,
                         <<TemplateAttributeFixed("x", xopt, "str", "none", dv)>>)>> \o more),
      data |-> d] :
        rnt \in {"-", "AN"}, nopt \in BOOLEAN, nv \in {"none", "reject"},
        nnt \in {"-", "CN"}, xopt \in BOOLEAN, dv \in {NoneV, StrV("abc")},
        more \in {<<>>, <<TemplateNodeFixed("m", TRUE, "none", "-",
                            <<TemplateAttributeFixed("y", FALSE, "str", "none", NoneV)>>)>>},
        d \in OptData}

RECURSIVE AllocBound(_)
RECURSIVE AllocBoundKids(_, _)
AllocBoundKids(kids, i) ==
    IF i > Len(kids) THEN 0 ELSE AllocBound(kids[i]) + AllocBoundKids(kids, i + 1)
\* the most objects the validate of a template creates
AllocBound(t) ==
    CASE t.k = "attr" -> 1
      [] t.k = "fixed" -> 1 + AllocBoundKids(t.attributes, 1)
      [] OTHER -> 1 + Len(t.names_lst) * (1 + AllocBound(t.attributes[1]))

\* what the caller of validate got: the exception or the returned object,
\* and the validators that were called
Outcome(st, absent) ==
    [live |-> TRUE, absent |-> absent, err |-> st.err, msg |-> st.msg,
     ret |-> st.ret, calls |-> st.calls]

\* --------------------------------------------------------------- actions
\* node = ConfigNode(template.name, attributes=data)
DoLoad ==
    /\ heap[RootId].kind = "free"
    /\ ~held.live
    /\ heap' = NewNode(Ok(heap), input.tmpl.name, None, input.data).h
    /\ last' = Called("load")
    /\ UNCHANGED <<lists, input, held, snap>>

\* template.validate(node)
DoValidate ==
    /\ heap[RootId].kind = "node"
    /\ ~held.live
    /\ LET st == Validate(Ok(heap), input.tmpl, RootId)
       IN /\ heap' = st.h
          /\ held' = Outcome(st, FALSE)
    /\ snap' = heap
    /\ last' = Called("validate")
    /\ UNCHANGED <<lists, input>>

\* template.validate(None)
DoValidateAbsent ==
    /\ heap[RootId].kind = "free"
    /\ ~held.live
    /\ LET st == Validate(Ok(heap), input.tmpl, None)
       IN /\ heap' = st.h
          /\ held' = Outcome(st, TRUE)
    /\ snap' = heap
    /\ last' = Called("validate")
    /\ UNCHANGED <<lists, input>>

InitVal ==
    /\ input \in AttrScenarios \cup BareScenarios \cup SetScenarios
                \cup DeepScenarios \cup OrderScenarios \cup HintScenarios
                \cup OptScenarios
    /\ heap = [i \in 1..(1 + RawSize(input.data) + AllocBound(input.tmpl)) |-> FreeObj]
    /\ lists = << <<"1">> >>
    /\ last = NoCall
    /\ held = NoHeld
    /\ snap = <<>>

NextVal ==
    \/ DoLoad
    \/ DoValidate
    \/ DoValidateAbsent

SpecVal == InitVal /\ [][NextVal]_vars

\* ====================================================================
\* ConfigRoot.__init__: the configuration is read from the first candidate
\* source that gives a tree which is not empty, and validated against the
\* template the generator returns.
\* ====================================================================

\* --------------------------------------------------------------- inputs
\* the most entries of default_paths
MaxPaths == 2

\* a candidate file: one that is missing or not readable, one that the
\* parser rejects, one that holds {} and one that holds {"a": tag}
Source(content, tag) == [content |-> content, tag |-> tag]
NoSource == Source("", "")
Missing == Source("missing", "")
Unparsable == Source("unparsable", "")
EmptyFile == Source("empty", "")
Good(tag) == Source("ok", tag)

RECURSIVE PathLists(_)
PathLists(n) ==
    IF n = 0 THEN { <<>> }
    ELSE PathLists(n - 1) \cup
         {Append(p, s) : p \in {q \in PathLists(n - 1) : Len(q) = n - 1},
                         s \in {Missing, EmptyFile, Good("zzz")}}

\* what template_gen returns: a fixed-name template with one attribute "a",
\* named "root" or not, or a node set named "root"
Generators ==
    {TemplateNodeFixed(nm, FALSE, "none", "-",
                       <<TemplateAttributeFixed("a", opt, "str", vd, NoneV)>>) :
        nm \in {"root", "cfg"}, opt \in BOOLEAN, vd \in {"none", "in_choices"}}
    \cup {TemplateNodeSet("root",
              TemplateNodeFixed("-", TRUE, "none", "-",
                  <<TemplateAttributeFixed("x", TRUE, "str", "none", NoneV)>>),
              <<"a">>)}

\* template_gen=None
NoGenerator == TemplateNodeFixed("", FALSE, "none", "-", <<>>)

InitScenarios ==
    {[filename |-> f, env |-> e, default_paths |-> p, tmpl |-> t] :
        f \in {NoSource, Missing, Unparsable, EmptyFile, Good("abc")},
        e \in {NoSource, Missing, Good("5")},
        p \in PathLists(MaxPaths),
        t \in Generators \cup {NoGenerator}}

\* ------------------------------------------------------------ __init__
\* the candidate list: filename, the environment variable, default_paths
CandidateList(inp) ==
    (IF inp.filename # NoSource THEN <<inp.filename>> ELSE <<>>)
    \o (IF inp.env # NoSource THEN <<inp.env>> ELSE <<>>)
    \o inp.default_paths

\* hasattr(self, "attributes"): ConfigRoot.__init__ does not call the
\* constructor of ConfigNode, the attribute exists once _copy has run
HasAttributes(h) == h[RootId].kind = "node"

\* ConfigReader.json(fname) / ConfigReader.cfg(fname): ret is the tree read
ReadFile(st, src) ==
    LET s0 == [st EXCEPT !.calls = Append(@, [validator |-> "read", val |-> StrV(src.tag),
                                             path |-> <<src.content>>])]
    IN CASE src.content = "missing" ->
              Raise(s0, "IOError", Msg("file_does_not_exist", <<>>, NoneV))
         [] src.content = "unparsable" ->
              Raise(s0, "ValueError", Msg("json_decode", <<>>, NoneV))
         [] src.content = "empty" -> NewNode(s0, "root", None, EmptyDict)
         [] OTHER ->
              NewNode(s0, "root", None,
                      RawDict(<<Item("a", RawScalar(StrV(src.tag)))>>))

\* self._copy(node)
Copy(st, node) ==
    IF Failed(st) THEN st
    ELSE IF node = None
    THEN Raise(st, "AttributeError", Msg("none_has_no_node_type", <<>>, NoneV))
    ELSE [st EXCEPT !.h[RootId] = st.h[node]]

\* the body of the try for one candidate, and the bare except that
\* goes on to the next candidate
TryCandidate(st, src) ==
    Then(Then(ReadFile(st, src), LAMBDA s1 : Copy(s1, s1.ret)),
         LAMBDA s2 : Then(SetNodeType(s2, RootId, "CN"),
                          LAMBDA s3 : [s3 EXCEPT !.err = "", !.msg = NoMsg,
                                                 !.ret = IF Failed(s3) THEN None
                                                         ELSE RootId]))

\* for fname in candidate_list, with the break at the first tree that has
\* attributes; ret of TryCandidate is None when the except clause ran
RECURSIVE CandidateLoop(_, _, _)
CandidateLoop(st, cands, i) ==
    IF i > Len(cands) THEN st
    ELSE Then(TryCandidate(st, cands[i]),
              LAMBDA s1 :
                  IF s1.ret # None /\ HasAttributes(s1.h)
                          /\ Len(s1.h[RootId].attrs) > 0
                  THEN s1
                  ELSE CandidateLoop(s1, cands, i + 1))

\* the check after the loop
CouldNotRead(st, cands) ==
    IF Len(cands) > 0 /\ HasAttributes(st.h) /\ Len(st.h[RootId].attrs) = 0
    THEN Raise(st, "IOError", MsgP("could_not_read_from_any", <<>>, NoneV, "candidate_list"))
    ELSE st

\* if template_gen: the template is validated against only when it is a
\* TemplateNodeFixed named "root", otherwise an error is logged
ValidateRoot(st, inp) ==
    IF Failed(st) \/ inp.tmpl = NoGenerator THEN st
    ELSE IF inp.tmpl.k = "fixed" /\ inp.tmpl.name = "root"
    THEN IF ~HasAttributes(st.h)
         THEN Raise(st, "AttributeError", Msg("no_attribute_attributes", <<>>, NoneV))
         ELSE Then(Validate(st, inp.tmpl, RootId),
                   LAMBDA s1 : Copy([s1 EXCEPT !.calls =
                                        IF Failed(s1) THEN @
                                        ELSE Append(@, [validator |-> "validate",
                                                        val |-> NoneV,
                                                        path |-> <<"root">>])],
                                    s1.ret))
    ELSE st

\* an __init__ without the last check
NoFinalCheck(st) == st

\* the last statement of __init__
FinalCheck(st) ==
    IF Failed(st) THEN st
    ELSE IF ~HasAttributes(st.h) \/ Len(st.h[RootId].attrs) = 0
    THEN Raise(st, "ValueError", Msg("could_not_initialize", <<>>, NoneV))
    ELSE st

RootInit(st, inp) ==
    Then(CandidateLoop(st, CandidateList(inp), 1),
         LAMBDA s1 : Then(CouldNotRead(s1, CandidateList(inp)),
                          LAMBDA s2 : Then(ValidateRoot(s2, inp),
                                           LAMBDA s3 : FinalCheck(s3))))

\* --------------------------------------------------------------- actions
\* ConfigRoot(filename, default_paths, default_env_path, template_gen)
DoInit ==
    /\ last.op = "none"
    /\ LET st == RootInit(Ok(heap), input)
       IN /\ heap' = st.h
          /\ held' = Outcome(st, FALSE)
    /\ snap' = heap
    /\ last' = Called("init")
    /\ UNCHANGED <<lists, input>>

InitRoot ==
    /\ input \in InitScenarios
    /\ heap = [i \in 1..(1 + 2 * (2 + MaxPaths) + AllocBound(input.tmpl)) |->
                  IF i = RootId THEN [FreeObj EXCEPT !.kind = "bare"] ELSE FreeObj]
    /\ lists = << <<"1">> >>
    /\ last = NoCall
    /\ held = NoHeld
    /\ snap = <<>>

NextRoot == DoInit

SpecRoot == InitRoot /\ [][NextRoot]_vars

\* ====================================================================
\* A Root read from the store: the data watch and the children watch
\* refresh it from the callback thread while the main thread saves it.
\* zk_update is the flag of the Root that the three of them test and set.
\* ====================================================================

\* the most changes other clients make to the store, and the most calls
\* of save the main thread makes
MaxChanges == 2
MaxSaves == 2
\* the most child Nodes of the node that is saved
MaxKids == 1

\* force: the argument of save; node_type, kids: the node that is saved,
\* the CN or AN root or a C node below a CN root, and the number of its
\* child Nodes; gen: no generator, one that returns
\* a TemplateNodeFixed named "root", or one that returns another template
WatchScenarios ==
    {[force |-> f, node_type |-> nt, kids |-> k, gen |-> g] :
        f \in BOOLEAN, nt \in {"C", "CN", "AN"}, k \in 0..MaxKids,
        g \in {"none", "root", "other"}}

\* zk_update: the flag; pending: the notifications the store has sent and
\* the callback thread has not run; cb, wpc: the callback that runs and
\* where it is; spc, level, todo: where save is, 1 inside the call for a
\* child Node, and the child Nodes still to write; exists, valid: whether
\* the path is in the store, and whether what it holds passes validation
Idle ==
    [zk_update |-> FALSE, pending |-> {}, cb |-> "", wpc |-> "idle",
     spc |-> "idle", level |-> 0, todo |-> 0, exists |-> TRUE, valid |-> TRUE,
     changes |-> 0, saves |-> 0]

\* the watches that were set: the children watch only on an AN root
Watches == IF input.node_type = "AN" THEN {"data", "child"} ELSE {"data"}

Step(op, err) == [Called(op) EXCEPT !.err = err]

\* ----------------------------------------------------- callback thread
\* another client writes or deletes the path: the store notifies
Notify ==
    /\ held.changes < MaxChanges
    /\ \E e \in BOOLEAN, v \in BOOLEAN :
          held' = [held EXCEPT !.changes = @ + 1, !.exists = e, !.valid = v,
                               !.pending = Watches]
    /\ last' = Step("notify", "")
    /\ UNCHANGED <<heap, lists, input, snap>>

\* if not self.zk_update: a callback that finds the flag set returns
WatchCheck ==
    /\ held.wpc = "idle"
    /\ \E k \in held.pending :
          /\ held' = [held EXCEPT !.pending = @ \ {k},
                                  !.cb = IF held.zk_update THEN "" ELSE k,
                                  !.wpc = IF held.zk_update THEN "idle" ELSE "lock"]
          /\ last' = Step(IF held.zk_update THEN "dropped" ELSE "check", "")
    /\ UNCHANGED <<heap, lists, input, snap>>

\* self.zk_update = True
WatchLock ==
    /\ held.wpc = "lock"
    /\ held' = [held EXCEPT !.zk_update = TRUE, !.wpc = "read"]
    /\ last' = Step("lock", "")
    /\ UNCHANGED <<heap, lists, input, snap>>

\* self._copy(self.read().zk(...)): the reader returns None for a path
\* that is not in the store, and _copy(None) raises
WatchRead ==
    /\ held.wpc = "read"
    /\ held' = [held EXCEPT !.cb = IF held.exists THEN @ ELSE "",
                            !.wpc = IF held.exists THEN "validate" ELSE "idle"]
    /\ last' = Step("read", IF held.exists THEN "" ELSE "AttributeError")
    /\ UNCHANGED <<heap, lists, input, snap>>

\* if template_gen: cfg_refresh validates against a TemplateNodeFixed
\* named "root" only, cfg_child_refresh against whatever was returned
WatchValidate ==
    /\ held.wpc = "validate"
    /\ LET validates == /\ input.gen # "none"
                        /\ held.cb = "child" \/ input.gen = "root"
           raises == validates /\ ~held.valid
       IN /\ held' = [held EXCEPT !.cb = IF raises THEN "" ELSE @,
                                  !.wpc = IF raises THEN "idle" ELSE "unlock"]
          /\ last' = Step("validate", IF raises THEN "ValueError" ELSE "")
    /\ UNCHANGED <<heap, lists, input, snap>>

\* self.zk_update = False
WatchUnlock ==
    /\ held.wpc = "unlock"
    /\ held' = [held EXCEPT !.zk_update = FALSE, !.cb = "", !.wpc = "idle"]
    /\ last' = Step("unlock", "")
    /\ UNCHANGED <<heap, lists, input, snap>>

\* ---------------------------------------------------------- main thread
\* node.write().zk(force=force)
SaveCall ==
    /\ held.spc = "idle"
    /\ held.saves < MaxSaves
    /\ held' = [held EXCEPT !.saves = @ + 1, !.spc = "check", !.level = 0,
                            !.todo = IF input.node_type = "AN" THEN input.kids ELSE 0]
    /\ last' = Step("save", "")
    /\ UNCHANGED <<heap, lists, input, snap>>

\* if not root.zk_update: a call that finds the flag set writes nothing
\* and returns
SaveCheck ==
    /\ held.spc = "check"
    /\ held' = [held EXCEPT !.spc = IF ~held.zk_update THEN "lock"
                                    ELSE IF held.level = 1 THEN "return"
                                    ELSE "idle"]
    /\ last' = Step(IF held.zk_update THEN "skipped" ELSE "check", "")
    /\ UNCHANGED <<heap, lists, input, snap>>

\* root.zk_update = True
SaveLock ==
    /\ held.spc = "lock"
    /\ held' = [held EXCEPT !.zk_update = TRUE, !.spc = "write"]
    /\ last' = Step("lock", "")
    /\ UNCHANGED <<heap, lists, input, snap>>

\* the content is made and the path is looked up: a Content node raises,
\* a path that exists raises without force, and with force the flag is
\* put down for the delete and the create; a child Node is CN, at a path
\* below the one just created
SaveWrite ==
    /\ held.spc = "write"
    /\ LET own == held.level = 0
           err == IF own /\ input.node_type = "C" THEN "AttributeError"
                  ELSE IF own /\ held.exists /\ ~input.force THEN "IOError"
                  ELSE ""
           there == own /\ held.exists
       IN /\ held' = [held EXCEPT
                         !.zk_update = IF err = "" /\ there THEN FALSE ELSE @,
                         !.exists = IF err = "" THEN TRUE ELSE @,
                         !.pending = IF err = "" /\ ~there THEN Watches ELSE @,
                         !.spc = IF err # "" THEN "idle"
                                 ELSE IF there THEN "replace"
                                 ELSE "kids"]
          /\ last' = Step("write", err)
    /\ UNCHANGED <<heap, lists, input, snap>>

\* root.zk_conn.delete(path, recursive=True); root.zk_conn.create(...)
SaveReplace ==
    /\ held.spc = "replace"
    /\ held' = [held EXCEPT !.pending = Watches, !.valid = TRUE, !.spc = "relock"]
    /\ last' = Step("replace", "")
    /\ UNCHANGED <<heap, lists, input, snap>>

\* root.zk_update = True after the create
SaveRelock ==
    /\ held.spc = "relock"
    /\ held' = [held EXCEPT !.zk_update = TRUE, !.spc = "kids"]
    /\ last' = Step("relock", "")
    /\ UNCHANGED <<heap, lists, input, snap>>

\* for node_name in self.cfg_obj.list_nodes(): the flag is put down and
\* zk is called for the child Node
SaveKids ==
    /\ held.spc = "kids"
    /\ held' = IF held.level = 0 /\ held.todo > 0
               THEN [held EXCEPT !.zk_update = FALSE, !.todo = @ - 1,
                                 !.level = 1, !.spc = "check"]
               ELSE [held EXCEPT !.spc = "unlock"]
    /\ last' = Step("kids", "")
    /\ UNCHANGED <<heap, lists, input, snap>>

\* root.zk_update = True after the call for the child Node
SaveReturn ==
    /\ held.spc = "return"
    /\ held' = [held EXCEPT !.zk_update = TRUE, !.level = 0, !.spc = "kids"]
    /\ last' = Step("return", "")
    /\ UNCHANGED <<heap, lists, input, snap>>

\* root.zk_update = False, the last statement of the body
SaveUnlock ==
    /\ held.spc = "unlock"
    /\ held' = [held EXCEPT !.zk_update = FALSE,
                            !.spc = IF held.level = 1 THEN "return" ELSE "idle"]
    /\ last' = Step("unlock", "")
    /\ UNCHANGED <<heap, lists, input, snap>>

\* __init__ has read the tree from the store, set the watches and left
\* the flag down
InitWatch ==
    /\ input \in WatchScenarios
    /\ heap = <<FreeObj>>
    /\ lists = << <<"1">> >>
    /\ last = NoCall
    /\ held = Idle
    /\ snap = <<>>

NextWatch ==
    \/ Notify
    \/ WatchCheck
    \/ WatchLock
    \/ WatchRead
    \/ WatchValidate
    \/ WatchUnlock
    \/ SaveCall
    \/ SaveCheck
    \/ SaveLock
    \/ SaveWrite
    \/ SaveReplace
    \/ SaveRelock
    \/ SaveKids
    \/ SaveReturn
    \/ SaveUnlock

SpecWatch == InitWatch /\ [][NextWatch]_vars

\* ------------------------------------------- the table of section 4.2
\* the type the row (old, new) gives to the direct child Nodes, "-" for none
RowChildren(old, new) ==
    IF new = "AN" /\ old \in {"C", "CN"} THEN "CN"
    ELSE IF old = "AN" /\ new \in {"CN", "C"} THEN "C"
    ELSE "-"

\* the type the row (old, new) gives to the ancestors, "-" for none
RowParents(old, new) ==
    IF old = "C" /\ new \in {"CN", "AN"} THEN "AN" ELSE "-"

\* the last call was set_node_type, asked for another type and returned
Transitioned ==
    /\ last.op = "set_node_type"
    /\ last.old # last.new
    /\ last.err = ""

\* C1: after set_node_type returns normally for one of the six transitions,
\* every direct child Node of the target has the child type of the row and
\* every ancestor of the target has the ancestor type of the row.
C1_TableRows ==
    Transitioned =>
        /\ RowChildren(last.old, last.new) # "-" =>
              \A c \in SeqToSet(ChildNodes(heap, last.node)) :
                  heap[c].ntype = RowChildren(last.old, last.new)
        /\ RowParents(last.old, last.new) # "-" =>
              \A a \in Ancestors(heap, last.node) :
                  heap[a].ntype = RowParents(last.old, last.new)

\* C2: a call of add, set, delete or set_node_type that starts from a
\* consistent tree and returns normally leaves a consistent tree.
C2_ConsistencyKept ==
    (last.op # "none" /\ last.preCons /\ last.err = "") => Consistent(heap)

\* the last call was set_node_type(C) on a CN or AN node
Demoted ==
    /\ last.op = "set_node_type"
    /\ last.new = "C"
    /\ last.old \in {"CN", "AN"}

\* C3: set_node_type(C) on a CN or AN node raises the structural-consistency
\* error, naming the node, exactly when no ancestor of the node had type CN,
\* and returns normally when some ancestor had.
C3_DemotionError ==
    Demoted =>
        /\ last.err = "AttributeError" <=> ~last.preCN
        /\ last.err = "" <=> last.preCN
        /\ last.err # "" =>
              last.msg = Msg("content_only_no_cn_parent", <<heap[last.node].name>>, NoneV)

\* C4: the mapping returned by get() on ConfigNode("root", attributes=M)
\* equals M, with the same keys in the same order, nested empty mappings
\* included.
C4_RoundTrip ==
    (last.op = "get" /\ held.path = <<>>) => DeepValue(held.val) = DeepValue(input)

\* a two-key mapping with an empty nested mapping and a list was read back
C4_Witness ==
    /\ last.op = "get"
    /\ held.path = <<>>
    /\ Len(input.items) = 2
    /\ \E i \in 1..2 : input.items[i].val = EmptyDict
    /\ \E i \in 1..2 : IsList(input.items[i].val)

\* C5: whatever the caller does to a value returned by get, every later
\* get on the tree returns what it returned when the caller first read.
C5_GetIndependent ==
    held.live => \A p \in GetPaths : DeepValue(Get(heap, RootId, p)) = snap[p]

\* ------------------------------------------ claims about validation
\* validate was called on a node that was there
Validated == held.live /\ ~held.absent

\* the scenario has one attribute template, "a", under the root template
AttrCase ==
    /\ Len(input.tmpl.attributes) = 1
    /\ input.tmpl.attributes[1].k = "attr"

AttrT == input.tmpl.attributes[1]

\* the attribute a was in the data
Present == HasKey(snap, RootId, "a")

\* the value validation starts from: the one in the data, the default of
\* the template if the data has none
Given == IF Present THEN snap[Child(snap, RootId, "a")].value ELSE AttrT.default_value

\* a value as its declared type takes it
Typed(v, vt) ==
    IF v = NoneV \/ IsInstance(v, vt) \/ Construct(vt, v).err # "" THEN v
    ELSE Construct(vt, v).val

\* the value the validator is given
Seen == Typed(Given, AttrT.value_type)

\* validation did not stop at the type of the value
PastCoercion == held.msg.what \notin {"expecting_type", "constructor"}

\* the validator was called once, on the value
CalledOnce ==
    /\ Len(held.calls) = 1
    /\ held.calls[1].val = Seen

\* validation failed with "Parameter <path> failed validation for value <value>"
FailedValidation ==
    /\ held.err = "ValueError"
    /\ held.msg.what = "parameter_failed_validation"
    /\ held.msg.path = <<"", "a">>
    /\ held.msg.val = Seen

\* the scenario has a node set under the root template
SetCase ==
    /\ Len(input.tmpl.attributes) = 1
    /\ input.tmpl.attributes[1].k = "set"

SetT == input.tmpl.attributes[1]
ElemT == SetT.attributes[1]
Declared == SeqToSet(SetT.names_lst)

\* the parent had a child of that name when validate was called
WasPresent(name) == snap[RootId].kind = "node" /\ HasKey(snap, RootId, name)

\* the element template is mandatory and each of its mandatory attributes
\* has a default
DefaultsForMandatory ==
    /\ ~ElemT.optional
    /\ \A i \in 1..Len(ElemT.attributes) :
          ~ElemT.attributes[i].optional => ElemT.attributes[i].default_value # NoneV

\* some attribute of the element template has a default
SomeDefault ==
    \E i \in 1..Len(ElemT.attributes) : ElemT.attributes[i].default_value # NoneV

\* the mapping made of the defaults of the element template
DefaultsOf(elem) ==
    LET ds == SelectSeq(elem.attributes, LAMBDA at : at.default_value # NoneV)
    IN RawDict([i \in 1..Len(ds) |->
                  Item(ds[i].name, RawScalar(Typed(ds[i].default_value, ds[i].value_type)))])

\* validation failed with a missing-node or missing-parameter error about
\* a declared name the parent did not have
FailedForMissing ==
    /\ held.err # ""
    /\ held.msg.what \in {"mandatory_node_missing", "mandatory_parameter_not_set"}
    /\ Len(held.msg.path) >= 2
    /\ held.msg.path[2] \in Declared
    /\ ~WasPresent(held.msg.path[2])

\* a declared name the parent did not have is in the result, as a node
\* made of the defaults
FilledIn(name) ==
    /\ HasKey(heap, held.ret, name)
    /\ IsNode(heap, Child(heap, held.ret, name))
    /\ ToDict(heap, Child(heap, held.ret, name)) = DefaultsOf(ElemT)

\* a declared name the parent had is still there, with every attribute it
\* had, and with the default of every attribute it had not
Kept(name) ==
    /\ HasKey(heap, held.ret, name)
    /\ Child(heap, held.ret, name) = Child(snap, RootId, name)
    /\ LET c == Child(snap, RootId, name) IN
       /\ \A x \in SeqToSet(snap[c].attrs) : HasKey(heap, c, snap[x].name)
       /\ \A i \in 1..Len(ElemT.attributes) :
             LET at == ElemT.attributes[i] IN
             (at.default_value # NoneV /\ ~HasKey(snap, c, at.name)) =>
                 /\ HasKey(heap, c, at.name)
                 /\ heap[Child(heap, c, at.name)].value
                      = Typed(at.default_value, at.value_type)

\* a declared name the parent had holds a value the element template refuses
Refused(name) ==
    LET c == Child(snap, RootId, name) IN
    \/ IsAttr(snap, c)
    \/ \E i \in 1..Len(ElemT.attributes) :
          LET at == ElemT.attributes[i] IN
          /\ HasKey(snap, c, at.name)
          /\ at.validator # "none"
          /\ CallValidator(at.validator,
                 Typed(snap[Child(snap, c, at.name)].value, at.value_type)) # "true"

\* what node-set validation does with the declared names
SetOutcome ==
    /\ ~FailedForMissing
    /\ held.err = "" =>
          /\ held.ret # None
          /\ \A name \in Declared :
                IF WasPresent(name) THEN Kept(name) ELSE FilledIn(name)
    /\ (\E name \in Declared : WasPresent(name) /\ Refused(name)) => held.err # ""

C7_NoAttributes ==
    (held.live /\ Len(input.tmpl.attributes) = 0 /\ ~input.tmpl.optional) =>
        /\ held.err = "ValueError"
        /\ held.msg = Msg("template_has_no_attributes", <<input.tmpl.name>>, NoneV)

\* C8: a validator is called on the value when the attribute is
\* mandatory or the value is not null, and a falsy result or any exception
\* of the validator makes validation fail with "Parameter <path> failed
\* validation for value <value>"; the validator of an optional attribute
\* with a null value is not called.
C8_AnyError ==
    (Validated /\ AttrCase /\ AttrT.validator # "none" /\ PastCoercion) =>
        IF ~AttrT.optional \/ Seen # NoneV
        THEN /\ CalledOnce
             /\ CallValidator(AttrT.validator, Seen) # "true" => FailedValidation
        ELSE held.calls = <<>>

\* C9: a value in the data that is not of the declared type becomes what
\* the type constructor makes of it; if the constructor fails in any way
\* and the value is not empty, validation fails with "Expecting <path> to
\* be of type <type>".
C9_Coercion ==
    (Validated /\ AttrCase /\ Present /\ Given # NoneV
        /\ ~IsInstance(Given, AttrT.value_type)) =>
        IF Construct(AttrT.value_type, Given).err = ""
        THEN heap[Child(snap, RootId, "a")].value = Construct(AttrT.value_type, Given).val
        ELSE Given # StrV("") =>
                /\ held.err = "ValueError"
                /\ held.msg = MsgP("expecting_type", <<"", "a">>, NoneV, AttrT.value_type)

\* C10 as stated: a mandatory attribute left with a null value fails with
\* "Mandatory parameter <path> has not been set, and has no default value",
\* with or without a validator.
C10_AnyValidator ==
    (Validated /\ AttrCase /\ ~AttrT.optional /\ Given = NoneV) =>
        /\ held.err = "ValueError"
        /\ held.msg = Msg("mandatory_parameter_not_set", <<"", "a">>, NoneV)

\* C10: a mandatory attribute left with a null value fails with that error
\* when the template has no validator or its validator accepts null; a
\* validator that returns a falsy result or raises ValueError for null
\* makes it fail with "Parameter <path> failed validation for value None"
\* instead.
C10_ValidatorFirst ==
    (Validated /\ AttrCase /\ ~AttrT.optional /\ Given = NoneV) =>
        LET out == IF AttrT.validator = "none" THEN "true"
                   ELSE CallValidator(AttrT.validator, NoneV)
        IN CASE out = "true" ->
                  /\ held.err = "ValueError"
                  /\ held.msg = Msg("mandatory_parameter_not_set", <<"", "a">>, NoneV)
             [] out \in {"false", "ValueError"} -> FailedValidation
             [] OTHER -> TRUE

\* a mandatory attribute, absent and without default, whose validator
\* accepts null, was reported as not set
C10_Witness ==
    /\ Validated
    /\ AttrCase
    /\ ~AttrT.optional
    /\ ~Present
    /\ Given = NoneV
    /\ AttrT.validator = "accept"
    /\ held.msg.what = "mandatory_parameter_not_set"

\* C11: whatever the tree and the template, validate returns or raises
\* ValueError; no exception of another class leaves it.
C11_SingleErrorType ==
    held.live => held.err \in {"", "ValueError"}

\* the scenario is the chain of templates root / b / a / x
DeepCase == input \in DeepScenarios

\* the full paths of the elements of the chain: "", "/b", "/b/a", "/b/a/x"
ChainPaths == {<<"">>, <<"", "b">>, <<"", "b", "a">>, <<"", "b", "a", "x">>}

\* C12: the message of a validation error names the offending element by
\* its full path from the root, every ancestor below the root included,
\* also when the element is inside a mandatory node that was absent from
\* the data.
C12_FullPath ==
    (held.live /\ DeepCase /\ held.err = "ValueError") => held.msg.path \in ChainPaths

\* an attribute that matches: the name asked for, if one was, and a value
\* the criteria accept
AttrMatches(h, a, name) ==
    IsAttr(h, a) /\ (name = "" \/ name = h[a].name) /\ Criteria(h[a].value)

RECURSIVE MatchesAt(_, _, _, _)
\* the node n matches at depth d
MatchesAt(h, n, name, d) ==
    \/ \E a \in SeqToSet(h[n].attrs) : AttrMatches(h, a, name)
    \/ d > 1 /\ \E c \in SeqToSet(ChildNodes(h, n)) : MatchesAt(h, c, name, d - 1)

\* the nodes a search looks at: the child nodes of the start, or every
\* node below the start
SearchRange(h, start, recursive) ==
    IF recursive THEN {n \in Reach(h, start) \ {start} : IsNode(h, n)}
    ELSE SeqToSet(ChildNodes(h, start))

\* C13: search returns exactly the paths of the nodes in its range that
\* match at the depth asked for, and never the start node.
C13_SearchResult ==
    last.op = "search" =>
        held.result =
            {NodePath(heap, n) :
                n \in {m \in SearchRange(heap, GetObj(heap, RootId, held.path), held.recursive) :
                          MatchesAt(heap, m, held.name, held.depth)}}

\* the search of the scenario, depth 2 and recursive over
\* {"i": 2, "n": {"b": 5, "n2": {}}} at /t1, returned /t1/n and /t1
C13_Witness ==
    /\ last.op = "search"
    /\ held.path = <<"", "">>
    /\ held.name = ""
    /\ held.depth = 2
    /\ held.recursive
    /\ ToDict(heap, RootId) =
          RawDict(<<Item("t1", RawDict(<<Item("i", RawScalar(IntV("2"))),
              Item("n", RawDict(<<Item("b", RawScalar(IntV("5"))), Item("n2", EmptyDict)>>))>>))>>)
    /\ held.result = { <<"", "t1", "n">>, <<"", "t1">> }

RECURSIVE Unresolved(_, _, _)
\* a segment before the last one is not the name of a child Node of the
\* node reached so far
Unresolved(h, n, segs) ==
    /\ Len(segs) >= 2
    /\ \/ ~HasKey(h, n, segs[1])
       \/ ~IsNode(h, Child(h, n, segs[1]))
       \/ Unresolved(h, Child(h, n, segs[1]), Tail(segs))

\* C14: delete with a path that has no segment raises the no-path error,
\* delete with a path whose intermediate segment is not a child Node
\* raises KeyError, and either way the tree is what it was.
C14_DeleteErrors ==
    last.op = "delete" =>
        /\ Segments(held.path) = <<>> =>
              /\ last.err = "ValueError"
              /\ last.msg.what = "no_path_to_delete"
              /\ heap = snap
        /\ Unresolved(snap, last.node, Segments(held.path)) =>
              /\ last.err = "KeyError"
              /\ heap = snap

\* ------------------------------------------------------ ConfigRoot init
\* the sources __init__ read, in the order it read them
SourcesRead == SelectSeq(held.calls, LAMBDA c : c.validator = "read")
InitDone == last.op = "init"
InitSucceeded == InitDone /\ held.err = ""
TreeValidated == \E i \in 1..Len(held.calls) : held.calls[i].validator = "validate"

\* C15: when the explicitly named source cannot be read, init raises, and
\* it reads neither the environment-variable source nor a default path.
C15_ExplicitSourceFatal ==
    (InitDone /\ input.filename.content \in {"missing", "unparsable"}) =>
        /\ held.err # ""
        /\ Len(SourcesRead) = 1

\* C16: when the candidate list is not empty and no candidate gives a tree
\* with attributes, init raises the IOError "Could not read configuration
\* file from any of the specified sources" with the candidate list.
C16_AggregateError ==
    (/\ InitDone
     /\ Len(CandidateList(input)) > 0
     /\ \A i \in 1..Len(CandidateList(input)) : CandidateList(input)[i].content # "ok") =>
        /\ held.err = "IOError"
        /\ held.msg = MsgP("could_not_read_from_any", <<>>, NoneV, "candidate_list")

\* C17: when, after the candidates are read and the tree is validated, the
\* root has no attributes mapping or an empty one, init raises.
C17_NeverEmpty ==
    (InitDone /\ (~HasAttributes(heap) \/ Len(heap[RootId].attrs) = 0)) =>
        held.err # ""

\* every candidate raised, there is no generator, and the last check of
\* __init__ raised "Could not initialize configuration"
C17_Witness ==
    /\ InitDone
    /\ ~HasAttributes(heap)
    /\ Len(SourcesRead) = 3
    /\ input.tmpl = NoGenerator
    /\ held.err = "ValueError"
    /\ held.msg.what = "could_not_initialize"

\* C18: when a generator is given and init returns, the generator returned
\* a TemplateNodeFixed named "root" and the tree was validated against it.
C18_ValidatedTree ==
    (InitSucceeded /\ input.tmpl # NoGenerator) =>
        /\ input.tmpl.k = "fixed"
        /\ input.tmpl.name = "root"
        /\ TreeValidated

\* ------------------------------------------------- the flag zk_update
\* a callback has set the flag and has not returned
RefreshInBody == held.wpc \in {"read", "validate", "unlock"}
\* save has set the flag and has not returned
SaveInBody ==
    \/ held.spc \in {"write", "replace", "relock", "kids", "return", "unlock"}
    \/ held.level = 1

\* C19: a callback and save are never both between the statement that
\* sets the flag and their return, and a callback that finds the flag set
\* returns without reading the store.
C19_OneAtATime ==
    /\ ~(RefreshInBody /\ SaveInBody)
    /\ last.op = "dropped" => held.wpc = "idle"

\* C20: when no callback runs and save is not running, the flag is down.
C20_FlagCleared ==
    (held.wpc = "idle" /\ held.spc = "idle") => ~held.zk_update

\* --------------------------------------------- order of the violations
OrderCase == Validated /\ input \in OrderScenarios
HasItem(raw, nm) == \E i \in 1..Len(raw.items) : raw.items[i].name = nm
ItemOf(raw, nm) == raw.items[CHOOSE i \in 1..Len(raw.items) : raw.items[i].name = nm].val

\* what the walk meets at an attribute template: whether the data violates
\* it, whether its validator is called, and the error of the violation;
\* the validator of a mandatory attribute that is absent is given None
AttrVisit(at, raw) ==
    [label |-> at.name,
     violates |-> IF HasItem(raw, at.name)
                  THEN at.validator # "none" /\ ItemOf(raw, at.name).v = StrV("zzz")
                  ELSE ~at.optional,
     called |-> at.validator # "none" /\ (HasItem(raw, at.name) \/ ~at.optional),
     what |-> IF at.validator # "none" THEN "parameter_failed_validation"
              ELSE "mandatory_parameter_not_set"]

\* what the walk meets at the validator of a node template
NodeVisit(nt) ==
    [label |-> nt.validator,
     violates |-> nt.validator \in {"reject", "raise_value_error", "upper_in"},
     called |-> nt.validator # "none",
     what |-> IF nt.validator = "upper_in" THEN "validator" ELSE "node_failed_validation"]

\* what the walk meets at the end of a node template, mandatory over a
\* node that has no attribute
EndVisit(nt, raw) ==
    [label |-> "end", violates |-> ~nt.optional /\ raw.items = <<>>, called |-> FALSE,
     what |-> "mandatory_node_missing"]

\* the depth-first walk of the template of the scenario, in the order of
\* declaration: the validator of the root, a, the validator of n, x, the
\* end of n, b; an optional n that is absent is not walked
Walk ==
    LET t == input.tmpl
        n == t.attributes[2]
        nd == IF HasItem(input.data, "n") THEN ItemOf(input.data, "n") ELSE EmptyDict
    IN <<NodeVisit(t), AttrVisit(t.attributes[1], input.data)>>
       \o (IF ~HasItem(input.data, "n") /\ n.optional THEN <<>>
           ELSE <<NodeVisit(n), AttrVisit(n.attributes[1], nd), EndVisit(n, nd)>>)
       \o <<AttrVisit(t.attributes[3], input.data)>>

Violations == {i \in 1..Len(Walk) : Walk[i].violates}
FirstViolation == CHOOSE i \in Violations : \A j \in Violations : i <= j
\* the validators called up to the position i of the walk
CalledUpTo(i) ==
    LET w == SubSeq(Walk, 1, i)
        c == SelectSeq(w, LAMBDA v : v.called)
    IN [j \in 1..Len(c) |-> c[j].label]
CallLabels ==
    [j \in 1..Len(held.calls) |->
        IF held.calls[j].validator = "in_choices"
        THEN held.calls[j].path[Len(held.calls[j].path)]
        ELSE held.calls[j].validator]

Shape(h) ==
    [tree |-> ToDict(h, RootId),
     types |-> [i \in 1..Len(Preorder(h, RootId)) |-> h[Preorder(h, RootId)[i]].ntype]]

\* C22: when validate raises, the tree it was given holds the keys, the
\* values and the node_types it held before the call.
C22_UnchangedOnFailure ==
    (Validated /\ held.err # "") => Shape(heap) = Shape(snap)

\* ------------------------------------------- the validator of a node
\* C23: the validator of the root template is the first thing called, it
\* is given the mapping the root held before the call, and when it returns
\* False or raises, validate raises ValueError "Node <path> failed
\* validation" and nothing else was called.
C23_NodeValidatorFirst ==
    (OrderCase /\ input.tmpl.validator # "none") =>
        /\ Len(held.calls) >= 1
        /\ held.calls[1].validator = input.tmpl.validator
        /\ held.calls[1].val = ToDict(snap, RootId)
        /\ NodeVisit(input.tmpl).violates =>
              /\ held.err = "ValueError"
              /\ held.msg.what = "node_failed_validation"
              /\ Len(held.calls) = 1

\* ------------------------------------------------ the node_type hints
HintCase == Validated /\ input \in HintScenarios /\ held.err = "" /\ held.ret # None
\* the node of the validated tree at a path has the node_type of the
\* template t, when the template has one and the node is there
HintKept(t, path) ==
    LET o == GetObj(heap, held.ret, path)
    IN (t.node_type # "-" /\ o # None) => heap[o].ntype = t.node_type

\* C24: after a validate that returns a node, the root, b and a each have
\* the node_type their template names.
C24_AsStated ==
    HintCase =>
        /\ HintKept(input.tmpl, <<>>)
        /\ HintKept(input.tmpl.attributes[1], <<"b">>)
        /\ HintKept(input.tmpl.attributes[1].attributes[2], <<"b", "a">>)

\* ------------------------------------------------------------------ add
\* the last call was add, in one of its forms, and it returned
Added ==
    /\ last.op \in {"add_object", "add_list", "add_dict", "add_tuples"}
    /\ last.err = ""

\* C25: after add returns, the node it was called on has the node_type it
\* had, and when that is AN every child Node of it is CN or AN.
C25_AddKeepsType ==
    Added =>
        /\ heap[last.node].ntype = last.old
        /\ last.old = "AN" =>
              \A c \in SeqToSet(ChildNodes(heap, last.node)) : heap[c].ntype \in {"CN", "AN"}

RECURSIVE Parented(_, _)
\* every object below n has as parent the node that holds it, and every
\* Node below n is one level deeper than that node
Parented(h, n) ==
    \A c \in SeqToSet(h[n].attrs) :
        /\ h[c].parent = n
        /\ IsNode(h, c) => h[c].depth = h[n].depth + 1 /\ Parented(h, c)

\* C26: after add returns, whatever the form of its argument, every child
\* of the receiving node has the receiver as parent and, if a Node, the
\* receiver's depth plus one, and so on down to every descendant.
C26_ParentAndDepth == Added => Parented(heap, last.node)

\* --------------------------------------------- an absent optional node
\* the names of the children the data gives to the root
DataKeys == {input.data.items[i].name : i \in 1..Len(input.data.items)}

\* the child template c is an optional node template and the data has no
\* child of its name
AbsentOptional(c) == c.k = "fixed" /\ c.optional /\ c.name \notin DataKeys

\* validate was called on a root that holds something, with a template
\* whose child templates are all optional node templates of absent names
OptCase ==
    /\ Validated
    /\ input.tmpl.k = "fixed" /\ input.tmpl.validator = "none"
    /\ Len(input.tmpl.attributes) >= 1
    /\ \A i \in 1..Len(input.tmpl.attributes) : AbsentOptional(input.tmpl.attributes[i])
    /\ DataKeys # {}

\* C27: no child is made for an optional node template whose name the
\* data does not have, whatever else happens; and when the child templates
\* are all of that kind, validate of a parent that holds something returns
\* the parent with the mapping it held before the call, even where the
\* absent templates declare mandatory attributes without defaults.
C27_NotSynthesized ==
    /\ (Validated /\ input.tmpl.k = "fixed") =>
          \A i \in 1..Len(input.tmpl.attributes) :
              AbsentOptional(input.tmpl.attributes[i]) =>
                  ~HasKey(heap, RootId, input.tmpl.attributes[i].name)
    /\ OptCase =>
          /\ held.err = ""
          /\ held.ret = RootId
          /\ ToDict(heap, RootId) = ToDict(snap, RootId)

\* the test of the optional node with a mandatory attribute: n and m are
\* absent and optional, x and y mandatory without defaults, and the root
\* holds the node s and the attribute v
C27_Witness ==
    /\ OptCase
    /\ Len(input.tmpl.attributes) = 2
    /\ \A i \in 1..2 : \E j \in 1..Len(input.tmpl.attributes[i].attributes) :
          LET a == input.tmpl.attributes[i].attributes[j]
          IN a.k = "attr" /\ ~a.optional /\ a.default_value = NoneV
    /\ DataKeys = {"s", "v"}
    /\ held.ret = RootId

\* ------------------------------------------------- null attributes
\* C28: in the node that the validate of a fixed node template returns, no
\* attribute declared by the template has the value None.
C28_NoNullAttribute ==
    (Validated /\ held.err = "" /\ held.ret # None /\ input.tmpl.k = "fixed") =>
        \A i \in 1..Len(input.tmpl.attributes) :
            LET t == input.tmpl.attributes[i]
            IN (t.k = "attr" /\ HasKey(heap, held.ret, t.name)
                    /\ IsAttr(heap, Child(heap, held.ret, t.name)))
                   => heap[Child(heap, held.ret, t.name)].value # NoneV

\* ------------------------------------------------------ set_node_type
\* the last call raised the error of set_node_type for a node that is made
\* Content-only with no Content Node above it
RaisedNoCN == last.err = "AttributeError" /\ last.msg.what = "content_only_no_cn_parent"

\* C29: when a call raises the error of set_node_type, the node it was
\* made on has the node_type it had before the call.
C29_FailedChangesNothing == RaisedNoCN => heap[last.node].ntype = last.old

\* C30: after set_node_type(T) returns, the node_type of the node it was
\* called on is T.
C30_OwnTypeIsSet ==
    (last.op = "set_node_type" /\ last.err = "") => heap[last.node].ntype = last.new

====
